---------------------------- MODULE Spec2Model ----------------------------
(***************************************************************************)
(* A model of flask-telegram-bot:                                          *)
(*   - BotDispatcher (telegram_bot/dispatcher.py): the ordered chain of    *)
(*     update handlers and process_update;                                 *)
(*   - the receive_update endpoint (app/bot/routes.py) that feeds it;      *)
(*   - TelegramMessage.get_markdown_v2_text                                *)
(*     (app/models/bot_api/telegram_message.py).                           *)
(***************************************************************************)
EXTENDS Integers, Sequences, FiniteSets, TLC

(***************************************************************************)
(* Bounds of the model                                                     *)
(***************************************************************************)
MaxHandlers == 3

\* Longest message text and most entities of a message with entities
MaxTextLen == 3

MaxEntities == 2

\* Longest message text of a message without entities
MaxPlainLen == 2

\* Largest offset and length in the raw entity dicts of an update
MaxRawSpan == 2

\* Longest enumerated text and most entities of a message with commands
MaxCommandTextLen == 2

MaxCommandEntities == 2

\* Most BotDispatcher objects made, most handlers registered on one
MaxInstances == 3

MaxRegistered == 2

(***************************************************************************)
(* Python values a handler can return.  A value is a record                *)
(*   t      the type ("NoneType", "bool", "int", "dict"),                  *)
(*   v      the scalar value as text ("" for a dict),                      *)
(*   items  the (key, value) pairs of a dict ({} for a scalar).            *)
(* Raise stands for "the call raised an exception instead of returning".   *)
(***************************************************************************)
PyNone == [t |-> "NoneType", v |-> "None", items |-> {}]

PyTrue == [t |-> "bool", v |-> "True", items |-> {}]

PyFalse == [t |-> "bool", v |-> "False", items |-> {}]

PyInt(n) == [t |-> "int", v |-> ToString(n), items |-> {}]

PyDict(pairs) == [t |-> "dict", v |-> "", items |-> pairs]

Raise == [t |-> "raise", v |-> "Exception", items |-> {}]

\* The call f(data) itself failed: the arguments do not fit the parameters
TypeError == [t |-> "raise", v |-> "TypeError", items |-> {}]

IsRaise(out) == out.t = "raise"

\* The return values the handlers of the model produce.
HandlerResults ==
    { PyNone, PyTrue, PyFalse, PyInt(1),
      PyDict({}),
      PyDict({<<"ok", "True">>}),
      PyDict({<<"ok", "False">>}),
      PyDict({<<"ok", "1">>}),
      PyDict({<<"result", "1">>}) }

\* What a call f(data) can do: return one of the values, or raise.
HandlerOutcomes == HandlerResults \cup {Raise}

\* bool(value): None, False, 0 and the empty dict are falsy.
Truthy(val) ==
    CASE val.t = "NoneType" -> FALSE
      [] val.t = "bool" -> val.v = "True"
      [] val.t = "int" -> val.v # "0"
      [] val.t = "dict" -> val.items # {}
      [] OTHER -> TRUE

\* isinstance(value, dict)
IsDict(val) == val.t = "dict"

\* key in value
HasKey(val, key) == \E p \in val.items : p[1] = key

\* value[key] for a key the dict holds
GetItem(val, key) == (CHOOSE p \in val.items : p[1] = key)[2]

(***************************************************************************)
(* The handlers: three callables; b and b2 are different callables that    *)
(* have the same __module__ and __qualname__ (two closures made by one     *)
(* factory function).                                                      *)
(***************************************************************************)
Handlers == {"a", "b", "b2"}

\* ".".join((f.__module__, f.__qualname__))
Label(f) ==
    CASE f = "a" -> "app.bot_handlers.a.handle_update"
      [] f = "b" -> "app.bot_handlers.b.make.<locals>.handle_update"
      [] f = "b2" -> "app.bot_handlers.b.make.<locals>.handle_update"
      [] f = "sample_handler" -> "app.bot_handlers.sample_handler.handle_update"
      [] f = "update_default" -> "app.bot_handlers.update_default.handle_update"
      [] f = "extra_param" -> "app.bot_handlers.extra_param.handle_update"

(***************************************************************************)
(* HTTP side: requests and responses of the receive_update endpoint.       *)
(***************************************************************************)
Methods == {"GET", "POST"}

\* The JSON payload of a POST: an update (an object with update_id), or an
\* object that has no update_id.
Payloads == {"update", "no_update_id"}

NoResponse == [status |-> 0, ok |-> "none"]

\* default_ok_response(): {"ok": true}, status 200
default_ok_response == [status |-> 200, ok |-> "true"]

\* error_response(msg): {"ok": false, "error": msg}, status 500 by default
error_response == [status |-> 500, ok |-> "false"]

VARIABLES
    update_handlers,  \* BotDispatcher.update_handlers: the handler chain
    pc,               \* position of process_update: idle / loop / returned / raised
    result,           \* the dict process_update builds: label -> return value
    calls,            \* the calls f(data) made by the current process_update
    returned,         \* what process_update returned to its caller (NoLog: nothing)
    rpc,              \* position of the receive_update view
    request,          \* the request being served
    response,         \* the response of the view
    logged,           \* messages written with logger.exception
    dump_updates,     \* current_app.config["DUMP_UPDATES"]
    text,             \* TelegramMessage.text of the message at hand
    entities,         \* TelegramMessage.entities of the message at hand
    markdown,         \* what get_markdown_v2_text() did for the message
    rerendered,       \* what it did for a message whose text is that output
    commands,         \* what the property bot_commands gave for the message
    bots,             \* BotDispatcher._bots: token -> dispatcher (0: no entry)
    instances,        \* the BotDispatcher objects made so far: their update_handlers
    op,               \* the last operation on the registry and what it returned
    workers,          \* the concurrent calls of process_update: their locals
    logs,             \* the dict "result" of each call frame of process_update
    behaviour,        \* what each handler returns for each update, once known
    email_string,     \* the argument of the last call of email_list
    emails,           \* what that call of email_list did
    store,            \* the committed rows of the bot's tables
    handled           \* the last message UpdateHandler processed, and what it did

dispatcher_vars == <<update_handlers, pc, result, calls, returned>>

route_vars == <<rpc, request, response, logged, dump_updates>>

message_vars == <<text, entities, markdown, rerendered, commands>>

registry_vars == <<bots, instances, op>>

worker_vars == <<workers, logs, behaviour>>

email_vars == <<email_string, emails>>

handler_vars == <<store, handled>>

app_vars == <<bots, instances, op, workers, logs, behaviour, email_string, emails,
              store, handled>>

vars == <<update_handlers, pc, result, calls, returned,
          rpc, request, response, logged, dump_updates,
          text, entities, markdown, rerendered, commands,
          bots, instances, op, workers, logs, behaviour,
          email_string, emails, store, handled>>

NoRequest == [method |-> "none", payload |-> "none"]

\* dict()
EmptyDict == [l \in {} |-> PyNone]

\* d[key] = val
DictSet(d, key, val) ==
    [l \in DOMAIN d \cup {key} |-> IF l = key THEN val ELSE d[l]]

\* process_update has not returned / has returned the dict log
NoLog == [done |-> FALSE, log |-> EmptyDict]

Returned(log) == [done |-> TRUE, log |-> log]

\* get_markdown_v2_text() was not called yet
NotCalled ==
    [status |-> "not called", is_str |-> FALSE, tokens |-> <<>>,
     entered |-> <<>>]

\* message.bot_commands was not read yet
NotRead == [read |-> FALSE, items |-> <<>>]

\* Bot tokens "<user id>:<secret>"
Tokens == {"1:a", "2:b"}

NoOp == [name |-> "none", token |-> "", returned |-> 0]

\* The threads that serve requests, and the updates they are given
Workers == {1, 2}

Updates == {"u1", "u2"}

\* A thread that has not called process_update
IdleWorker == [data |-> "none", pc |-> "idle", calls |-> <<>>, overlapped |-> FALSE]

\* No call of process_update is in progress; no handler was called yet
InitWorkers ==
    /\ workers = [w \in Workers |-> IdleWorker]
    /\ logs = [w \in Workers |-> EmptyDict]
    /\ behaviour = [k \in {} |-> PyNone]

\* email_list was not called yet
NotParsed == [status |-> "not called", items |-> <<>>, email_address |-> <<>>]

InitEmail ==
    /\ email_string = <<>>
    /\ emails = NotParsed

\* The users who write to the bot, and the group chat the bot is a member of
Users == {"ann", "bob"}

GroupChat == "group"

\* The database after the bot is registered: no subscriber, no admin, no
\* admin chat and no forward chat
EmptyStore ==
    [subs |-> [u \in Users |-> "none"],
     admins |-> [u \in Users |-> "none"],
     chats_admin |-> {},
     chats_forward |-> {}]

NotHandled == [message |-> [kind |-> "none"], before |-> EmptyStore, sent |-> <<>>, raised |-> FALSE]

InitStore ==
    /\ store = EmptyStore
    /\ handled = NotHandled

\* The class BotDispatcher when the module is imported: _bots = dict()
InitRegistry ==
    /\ bots = [token \in Tokens |-> 0]
    /\ instances = <<>>
    /\ op = NoOp
    /\ InitWorkers
    /\ InitEmail
    /\ InitStore

\* State of the dispatcher and of the view after create_app
InitDispatcher ==
    /\ InitRegistry
    /\ update_handlers = <<>>
    /\ pc = "idle"
    /\ result = EmptyDict
    /\ calls = <<>>
    /\ returned = NoLog
    /\ rpc = "idle"
    /\ request = NoRequest
    /\ response = NoResponse
    /\ logged = <<>>

Init ==
    /\ InitDispatcher
    /\ dump_updates \in BOOLEAN
    /\ text = <<>>
    /\ entities = <<>>
    /\ markdown = NotCalled
    /\ rerendered = NotCalled
    /\ commands = NotRead

(***************************************************************************)
(* BotDispatcher                                                           *)
(***************************************************************************)

\* The decorator returned by BotDispatcher.receive_update: appends f.
\* Handlers are registered while no request is being served.
decorator(f) ==
    /\ rpc \in {"idle", "responded"}
    /\ Len(update_handlers) < MaxHandlers
    /\ update_handlers' = Append(update_handlers, f)
    /\ UNCHANGED <<pc, result, calls, returned>>
    /\ UNCHANGED route_vars
    /\ UNCHANGED message_vars
    /\ UNCHANGED app_vars

NextHandler_reversed(handlers, n) == handlers[Len(handlers) + 1 - n]

\* "for f in self.update_handlers": the n-th handler the loop takes
NextHandler(handlers, n) == handlers[n]

\* "not f_result or (isinstance(f_result, dict) and f_result["ok"] is not True)"
\* raises KeyError for a truthy dict that has no "ok" key.
BreakTestRaises(f_result) ==
    /\ Truthy(f_result)
    /\ IsDict(f_result)
    /\ ~HasKey(f_result, "ok")

\* The same condition, where it evaluates: break out of the loop.
BreakTest(f_result) ==
    \/ ~Truthy(f_result)
    \/ (IsDict(f_result) /\ GetItem(f_result, "ok") # "True")

PcAfterCall_swallow(out, n, total) ==
    IF ~IsRaise(out) /\ BreakTestRaises(out) THEN "raised"
    ELSE IF ~IsRaise(out) /\ BreakTest(out) THEN "returned"
    ELSE IF n = total THEN "returned"
    ELSE "loop"

\* Where process_update is after the n-th of total handlers was called with
\* outcome out: an exception of the handler or of the break test leaves the
\* method (nothing catches it), a break or the end of the list returns.
PcAfterCall(out, n, total) ==
    IF IsRaise(out) THEN "raised"
    ELSE IF BreakTestRaises(out) THEN "raised"
    ELSE IF BreakTest(out) THEN "returned"
    ELSE IF n = total THEN "returned"
    ELSE "loop"

\* One iteration of the loop of process_update: call the next handler,
\* store its return value under the handler's label, test it.
process_update_call(out) ==
    /\ pc = "loop"
    /\ LET n == Len(calls) + 1
           f == NextHandler(update_handlers, n)
           log == IF IsRaise(out) THEN result
                  ELSE DictSet(result, Label(f), out)
           next == PcAfterCall(out, n, Len(update_handlers))
       IN /\ calls' = Append(calls, [f |-> f, out |-> out])
          /\ result' = log
          /\ pc' = next
          /\ returned' = IF next = "returned" THEN Returned(log) ELSE NoLog
    /\ UNCHANGED update_handlers
    /\ UNCHANGED route_vars
    /\ UNCHANGED message_vars
    /\ UNCHANGED app_vars

(***************************************************************************)
(* The receive_update view                                                 *)
(***************************************************************************)
MsgInvalidUpdate == "Error parsing incoming telegram update data"

MsgProcessing == "An exception occurred while processing update"

\* Lines 48-80 and 101: a GET is answered at once; a POST without
\* update_id raises EInvalidUpdateFormat, which is logged and answered with
\* error_response; a POST with update_id goes on to the second try block.
receive_update_request(method, payload) ==
    /\ rpc \in {"idle", "responded"}
    /\ request' = [method |-> method, payload |-> payload]
    /\ IF method # "POST"
       THEN /\ logged' = <<>>
            /\ response' = default_ok_response
            /\ rpc' = "responded"
       ELSE IF payload = "no_update_id"
       THEN /\ logged' = <<MsgInvalidUpdate>>
            /\ response' = error_response
            /\ rpc' = "responded"
       ELSE /\ logged' = <<>>
            /\ response' = NoResponse
            /\ rpc' = "parsed"
    /\ UNCHANGED dump_updates
    /\ UNCHANGED dispatcher_vars
    /\ UNCHANGED message_vars
    /\ UNCHANGED app_vars

ResponseAfter_strict(outcome) ==
    IF outcome = "raised" THEN error_response ELSE default_ok_response

\* The response of the view once the second try block is left: the except
\* clause only logs, line 101 answers.
ResponseAfter(outcome) == default_ok_response

\* Lines 86-94: with DUMP_UPDATES the update is written to a file, which
\* can raise; the exception is caught by "except Exception" (line 96).
receive_update_dump_fails ==
    /\ rpc = "parsed"
    /\ dump_updates
    /\ logged' = Append(logged, MsgProcessing)
    /\ response' = ResponseAfter("raised")
    /\ rpc' = "responded"
    /\ UNCHANGED <<request, dump_updates>>
    /\ UNCHANGED dispatcher_vars
    /\ UNCHANGED message_vars
    /\ UNCHANGED app_vars

\* Line 95: the view calls process_update (line 87: result = dict()).
process_update_begin ==
    /\ rpc = "parsed"
    /\ rpc' = "dispatching"
    /\ result' = EmptyDict
    /\ calls' = <<>>
    /\ IF update_handlers = <<>>
       THEN pc' = "returned" /\ returned' = Returned(EmptyDict)
       ELSE pc' = "loop" /\ returned' = NoLog
    /\ UNCHANGED update_handlers
    /\ UNCHANGED <<request, response, logged, dump_updates>>
    /\ UNCHANGED message_vars
    /\ UNCHANGED app_vars

\* Lines 96-101: process_update returned or raised; an exception is logged,
\* the view answers.
receive_update_respond ==
    /\ rpc = "dispatching"
    /\ pc \in {"returned", "raised"}
    /\ logged' = IF pc = "raised" THEN Append(logged, MsgProcessing) ELSE logged
    /\ response' = ResponseAfter(pc)
    /\ rpc' = "responded"
    /\ pc' = "idle"
    /\ result' = EmptyDict
    /\ calls' = <<>>
    /\ returned' = NoLog
    /\ UNCHANGED update_handlers
    /\ UNCHANGED <<request, dump_updates>>
    /\ UNCHANGED message_vars
    /\ UNCHANGED app_vars

Next ==
    \/ \E f \in Handlers : decorator(f)
    \/ \E method \in Methods, payload \in Payloads :
          receive_update_request(method, payload)
    \/ receive_update_dump_fails
    \/ process_update_begin
    \/ \E out \in HandlerOutcomes : process_update_call(out)
    \/ receive_update_respond

Spec == Init /\ [][Next]_vars



(***************************************************************************)
(* TelegramMessage.get_markdown_v2_text                                    *)
(*                                                                         *)
(* A string is a sequence of one-character strings.  The output is built   *)
(* as a sequence of tokens: token.c is the character written, the other    *)
(* fields record where it comes from:                                      *)
(*   src = "text"  character number pos (from 1) of the message text,      *)
(*   src = "esc"   a backslash inserted by re.sub,                         *)
(*   src = "open" / "close"  the markup put around entity number e,        *)
(*   src = "url"   a character of the URL of entity number e.              *)
(* An entity is identified by its position in message.entities (the        *)
(* code compares entity objects, which compare by identity).               *)
(***************************************************************************)

\* The character ` (U+0060), which a TLA+ string cannot hold
Backtick == "GRAVE"

\* None where a str is optional (no string of characters equals it)
None == <<"None">>

Min(x, y) == IF x <= y THEN x ELSE y

Tok(c, src, e, pos) == [c |-> c, src |-> src, e |-> e, pos |-> pos]

\* A literal string written for entity e
Lit(chars, src, e) == [i \in 1..Len(chars) |-> Tok(chars[i], src, e, 0)]

\* The characters of a token sequence: the string the code holds
Chars(tokens) == [i \in 1..Len(tokens) |-> tokens[i].c]

\* message_text[a:b] for 0 <= a, 0 <= b
Slice(message_text, a, b) ==
    LET hi == Min(b, Len(message_text))
    IN IF a >= hi THEN <<>>
       ELSE [i \in 1..(hi - a) |->
                Tok(message_text[a + i], "text", 0, a + i)]

RE_ESCAPE_COMMON_without_star ==
    {"_", "[", "]", "(", ")", "~", Backtick, ">", "#", "+", "-", "=", "|",
     "{", "}", ".", "!"}

RE_ESCAPE_COMMON_without_bang ==
    {"_", "*", "[", "]", "(", ")", "~", Backtick, ">", "#", "+", "-", "=", "|",
     "{", "}", "."}

\* The characters the class [re.escape(RE_ESCAPE_COMMON)] matches
RE_ESCAPE_COMMON ==
    {"_", "*", "[", "]", "(", ")", "~", Backtick, ">", "#", "+", "-", "=", "|",
     "{", "}", ".", "!"}

\* The characters the class [re.escape(RE_ESCAPE_CODE)] matches: backslash, grave accent
RE_ESCAPE_CODE == {"\\", Backtick}

\* The characters the class [re.escape(RE_ESCAPE_URL)] matches: backslash, )
RE_ESCAPE_URL == {"\\", ")"}

RECURSIVE re_sub(_, _)
\* re.sub(f"([{re.escape(re_escape)}])", r"\\\1", string): a backslash
\* before every character of the class, left to right
re_sub(re_escape, string) ==
    IF string = <<>> THEN <<>>
    ELSE LET head == string[1]
         IN (IF head.c \in re_escape
             THEN <<Tok("\\", "esc", 0, 0), head>>
             ELSE <<head>>) \o re_sub(re_escape, Tail(string))

RECURSIVE InsertSorted(_, _, _, _)
\* Insert item x into the sorted list after every item that does not come
\* strictly after it: equal keys keep their order (a stable sort).
InsertSorted(sorted_list, x, key, descending) ==
    IF sorted_list = <<>> THEN <<x>>
    ELSE LET y == sorted_list[1]
             x_first == IF descending THEN key[x] > key[y] ELSE key[x] < key[y]
         IN IF x_first THEN <<x>> \o sorted_list
            ELSE <<y>> \o InsertSorted(Tail(sorted_list), x, key, descending)

RECURSIVE sorted(_, _, _)
\* sorted(items, key=..., reverse=descending): stable, also when reversed
sorted(items, key, descending) ==
    IF items = <<>> THEN <<>>
    ELSE InsertSorted(sorted(SubSeq(items, 1, Len(items) - 1), key, descending),
                      items[Len(items)], key, descending)

\* Lines 234-240: sorted by length, longest first, then by offset
SortedEntities(ents) ==
    LET by_length == sorted([i \in 1..Len(ents) |-> i],
                            [i \in 1..Len(ents) |-> ents[i].length], TRUE)
    IN sorted(by_length, [i \in 1..Len(ents) |-> ents[i].offset], FALSE)

\* Lines 249-264: the escape class of the text that precedes a nested entity
ReEscape(ents, entity) ==
    IF entity = 0 THEN RE_ESCAPE_COMMON
    ELSE IF ents[entity].entity_type \in {"code", "pre"} THEN RE_ESCAPE_CODE
    ELSE IF ents[entity].entity_type = "text_link" THEN RE_ESCAPE_URL
    ELSE RE_ESCAPE_COMMON

\* Lines 273-282: the entities inside [entity_offset, entity_offset +
\* entity_length) that are not the entity and are not processed yet, in
\* sorted order; none for "pre" and "code"
NestedEntities(ents, sorted_entities, entity, entity_offset, entity_length, processed_entities) ==
    IF entity # 0 /\ ents[entity].entity_type \in {"pre", "code"} THEN <<>>
    ELSE LET Nested(n) ==
                 /\ ents[n].offset >= entity_offset
                 /\ ents[n].offset + ents[n].length <= entity_offset + entity_length
                 /\ n # entity
                 /\ n \notin processed_entities
         IN SelectSeq(sorted_entities, Nested)

prefix_without_lang_test(inner, lang) ==
    IF inner # <<>> /\ inner[1].c = "\\" THEN <<"\n">> ELSE <<>>

\* Line 326: prefix = "\n" if text.startswith("\\") and not lang else ""
prefix(inner, lang) ==
    IF inner # <<>> /\ inner[1].c = "\\" /\ lang = <<>> THEN <<"\n">> ELSE <<>>

\* Lines 313-341: the markup around the text of an entity.  The assert on
\* entity.url fails for a "url" or "text_link" entity that has no url.
Wrap(ent, e, inner) ==
    LET type == ent.entity_type
        plain == [text |-> inner, exc |-> FALSE]
        Around(open, close) ==
            [text |-> Lit(open, "open", e) \o inner \o Lit(close, "close", e),
             exc |-> FALSE]
    IN CASE type = "bold" -> Around(<<"*">>, <<"*">>)
         [] type = "italic" -> Around(<<"_">>, <<"_">>)
         [] type = "underline" -> Around(<<"_", "_">>, <<"_", "_">>)
         [] type = "strikethrough" -> Around(<<"~">>, <<"~">>)
         [] type = "pre" ->
              LET lang == IF ent.language # None /\ ent.language # <<>>
                          THEN ent.language \o <<"\n">> ELSE <<>>
              IN Around(<<Backtick, Backtick, Backtick>> \o prefix(inner, lang) \o lang,
                        <<Backtick, Backtick, Backtick>>)
         [] type = "code" -> Around(<<Backtick>>, <<Backtick>>)
         [] type \in {"url", "text_link"} ->
              IF ent.url = None THEN [text |-> inner, exc |-> TRUE]
              ELSE [text |-> Lit(<<"[">>, "open", e) \o inner
                             \o Lit(<<"]", "(">>, "close", e)
                             \o re_sub(RE_ESCAPE_URL, Lit(ent.url, "url", e))
                             \o Lit(<<")">>, "close", e),
                    exc |-> FALSE]
         [] type = "text_mention" /\ ent.tm_user # 0 ->
              Around(<<"[">>,
                     <<"]", "(", "t", "g", ":", "/", "/", "u", "s", "e", "r",
                       "?", "i", "d", "=">> \o <<ToString(ent.tm_user)>>
                       \o <<")">>)
         [] OTHER -> plain

NotYetProcessed_always(nested_entity, processed_entities) == TRUE

\* Line 297: if nested_entity not in processed_entities
NotYetProcessed(nested_entity, processed_entities) ==
    nested_entity \notin processed_entities

RECURSIVE process_entity(_, _, _, _, _, _)
RECURSIVE nested_loop(_, _, _, _, _, _, _, _)

\* Lines 284-299: the loop over nested_entities, from its k-th item on.
\* st holds text_chunks (joined), current_offset, processed_entities,
\* whether a nested call raised, and the entities process_entity was
\* entered for, one item per entry, in the order of the entries.
nested_loop(message_text, ents, sorted_entities, offset, re_escape, nested_entities, k, st) ==
    IF k > Len(nested_entities) THEN st
    ELSE LET n == nested_entities[k]
             before == IF st.current_offset < ents[n].offset
                       THEN re_sub(re_escape,
                                   Slice(message_text, st.current_offset,
                                         ents[n].offset))
                       ELSE <<>>
             call == NotYetProcessed(n, st.processed)
             sub == IF call
                    THEN process_entity(message_text, ents, sorted_entities,
                                        offset, n, st.processed)
                    ELSE [text |-> <<>>, processed |-> st.processed,
                          exc |-> FALSE, entered |-> <<>>]
         IN nested_loop(message_text, ents, sorted_entities, offset, re_escape,
                        nested_entities, k + 1,
                        [text_chunks |-> st.text_chunks \o before \o sub.text,
                         current_offset |-> ents[n].offset + ents[n].length,
                         processed |-> sub.processed,
                         exc |-> st.exc \/ sub.exc,
                         entered |-> st.entered \o sub.entered])

\* The closure process_entity (lines 242-341); entity = 0 is the top-level
\* call process_entity(None).  Gives the text, the list processed_entities
\* as the call leaves it, whether the call raised, and the entities that
\* this call and the calls below it were entered for.
process_entity(message_text, ents, sorted_entities, offset, entity, processed_entities) ==
    LET entity_offset == IF entity = 0 THEN offset ELSE ents[entity].offset
        entity_length == IF entity = 0 THEN Len(message_text) - offset
                         ELSE ents[entity].length
        re_escape == ReEscape(ents, entity)
        processed == IF entity # 0 THEN processed_entities \cup {entity}
                     ELSE processed_entities
        nested_entities == NestedEntities(ents, sorted_entities, entity,
                                          entity_offset, entity_length, processed)
        st == nested_loop(message_text, ents, sorted_entities, offset, re_escape,
                          nested_entities, 1,
                          [text_chunks |-> <<>>,
                           current_offset |-> entity_offset,
                           processed |-> processed,
                           exc |-> FALSE,
                           entered |-> IF entity = 0 THEN <<>>
                                       ELSE <<entity>>])
        trailing == IF st.current_offset < entity_offset + entity_length
                    THEN re_sub(RE_ESCAPE_COMMON,
                                Slice(message_text, st.current_offset,
                                      entity_offset + entity_length))
                    ELSE <<>>
        joined == st.text_chunks \o trailing
        wrapped == IF entity = 0 THEN [text |-> joined, exc |-> FALSE]
                   ELSE Wrap(ents[entity], entity, joined)
    IN [text |-> wrapped.text,
        processed |-> st.processed,
        exc |-> st.exc \/ wrapped.exc,
        entered |-> st.entered]

\* get_markdown_v2_text(offset): a text that is not a str is returned as it
\* is; an exception of process_entity leaves the method.
get_markdown_v2_text(message_text, ents, offset) ==
    IF message_text = None
    THEN [status |-> "returned", is_str |-> FALSE, tokens |-> <<>>,
          entered |-> <<>>]
    ELSE LET r == process_entity(message_text, ents, SortedEntities(ents),
                                 offset, 0, {})
         IN IF r.exc
            THEN [status |-> "raised", is_str |-> FALSE, tokens |-> <<>>,
                  entered |-> r.entered]
            ELSE [status |-> "returned", is_str |-> TRUE, tokens |-> r.text,
                  entered |-> r.entered]

(***************************************************************************)
(* Messages: the texts and entity lists the renderer is run on             *)
(***************************************************************************)
\* Characters of the texts: a plain one, one of the common class only, the
\* backtick (common and code class), the backslash (code and URL class).
Alphabet == {"a", "*", Backtick, "\\"}

\* Every character with a meaning in MarkdownV2, a plain one and the
\* backslash
FullAlphabet ==
    {"_", "*", "[", "]", "(", ")", "~", Backtick, ">", "#", "+", "-", "=", "|",
     "{", "}", ".", "!", "a", "\\"}

StringsUpTo(chars, n) == UNION {[1..k -> chars] : k \in 0..n}

SomeUrl == <<"u", ")">>

\* type and payload of the entities: every type the renderer knows, one
\* it does not know, each optional payload present and absent
EntityShapes ==
    {[entity_type |-> ty, url |-> None, tm_user |-> 0, language |-> None] :
        ty \in {"bold", "italic", "underline", "strikethrough", "code", "pre",
                "url", "text_link", "text_mention", "bot_command", "hashtag"}}
    \cup {[entity_type |-> "pre", url |-> None, tm_user |-> 0,
           language |-> <<"p", "y">>]}
    \cup {[entity_type |-> ty, url |-> SomeUrl, tm_user |-> 0, language |-> None] :
            ty \in {"url", "text_link"}}
    \cup {[entity_type |-> "text_mention", url |-> None, tm_user |-> 7,
           language |-> None]}

\* TelegramMessageEntity.from_dict: an entity of the given shape and span
Entity(shape, offset, length) ==
    [entity_type |-> shape.entity_type, offset |-> offset, length |-> length,
     url |-> shape.url, tm_user |-> shape.tm_user, language |-> shape.language]

\* The entities whose span lies within a text of n characters
EntitiesWithin(n) ==
    {Entity(shape, o, l) : shape \in EntityShapes,
                           o \in 0..(n - 1), l \in 1..n} \cap
    {ent \in [entity_type : STRING, offset : Int, length : Int,
              url : Seq(STRING), tm_user : Int, language : Seq(STRING)] :
        ent.offset + ent.length <= n}

\* The entity lists of a message with the given text
EntityLists(message_text) ==
    UNION {[1..k -> EntitiesWithin(Len(message_text))] : k \in 0..MaxEntities}

\* A call of message.get_markdown_v2_text() with the default offset
get_markdown_v2_text_call ==
    /\ markdown = NotCalled
    /\ markdown' = get_markdown_v2_text(text, entities, 0)
    /\ UNCHANGED <<text, entities, rerendered, commands>>
    /\ UNCHANGED dispatcher_vars
    /\ UNCHANGED route_vars
    /\ UNCHANGED app_vars

\* A message with entities, as TelegramMessage.from_dict builds it
InitRender ==
    /\ InitDispatcher
    /\ dump_updates = FALSE
    /\ text \in StringsUpTo(Alphabet, MaxTextLen)
    /\ entities \in EntityLists(text)
    /\ markdown = NotCalled
    /\ rerendered = NotCalled
    /\ commands = NotRead

\* A message without entities; its text may hold any character of the
\* common class
InitPlain ==
    /\ InitDispatcher
    /\ dump_updates = FALSE
    /\ text \in StringsUpTo(FullAlphabet, MaxPlainLen)
    /\ entities = <<>>
    /\ markdown = NotCalled
    /\ rerendered = NotCalled
    /\ commands = NotRead

\* A call of get_markdown_v2_text() on a message without entities whose
\* text is the string the first call returned
rerender ==
    /\ markdown.status = "returned"
    /\ markdown.is_str
    /\ rerendered = NotCalled
    /\ rerendered' = get_markdown_v2_text(Chars(markdown.tokens), <<>>, 0)
    /\ UNCHANGED <<text, entities, markdown, commands>>
    /\ UNCHANGED dispatcher_vars
    /\ UNCHANGED route_vars
    /\ UNCHANGED app_vars

NextRender ==
    \/ get_markdown_v2_text_call
    \/ rerender

SpecRender == InitRender /\ [][NextRender]_vars

SpecPlain == InitPlain /\ [][NextRender]_vars

(***************************************************************************)
(* TelegramMessage.bot_commands                                            *)
(***************************************************************************)
\* string[a:b] for 0 <= a, 0 <= b
Substring(string, a, b) ==
    LET hi == Min(b, Len(string))
    IN IF a >= hi THEN <<>>
       ELSE [i \in 1..(hi - a) |-> string[a + i]]

\* The characters str.strip() removes, as far as a string can hold them here
Whitespace == {" ", "\t", "\n", "\r", "\f"}

RECURSIVE lstrip(_)
lstrip(string) ==
    IF string # <<>> /\ string[1] \in Whitespace THEN lstrip(Tail(string))
    ELSE string

RECURSIVE rstrip(_)
rstrip(string) ==
    IF string # <<>> /\ string[Len(string)] \in Whitespace
    THEN rstrip(SubSeq(string, 1, Len(string) - 1))
    ELSE string

strip_nothing(string) == string

\* str.strip()
strip(string) == rstrip(lstrip(string))

RECURSIVE split(_, _)
\* str.split(sep) for a separator of one character: the pieces between the
\* separators, empty pieces too; one piece, the string, when it holds none
split(string, sep) ==
    IF \A i \in 1..Len(string) : string[i] # sep THEN <<string>>
    ELSE LET first == CHOOSE i \in 1..Len(string) :
                         /\ string[i] = sep
                         /\ \A j \in 1..(i - 1) : string[j] # sep
         IN <<SubSeq(string, 1, first - 1)>>
            \o split(SubSeq(string, first + 1, Len(string)), sep)

cmd_to_offset_plus_length(message_text, ent) ==
    Substring(message_text, ent.offset, ent.offset + ent.length)

\* Line 215: cmd = self.text[ent.offset : ent.length]
cmd(message_text, ent) == Substring(message_text, ent.offset, ent.length)

\* Line 216: params = self.text[ent.offset + ent.length :].strip().split(" ")
params(message_text, ent) ==
    split(strip(Substring(message_text, ent.offset + ent.length,
                          Len(message_text))), " ")

InResult_never(key, res) == FALSE

\* Line 217: cmd in result, for the OrderedDict as the list of its items
InResult(key, res) == \E n \in 1..Len(res) : res[n].cmd = key

RECURSIVE bot_commands_loop(_, _, _, _)
\* Lines 213-218: the loop over self.entities, from its k-th item on;
\* res is the OrderedDict result as the list of its items
bot_commands_loop(message_text, ents, k, res) ==
    IF k > Len(ents) THEN res
    ELSE LET ent == ents[k]
             known == InResult(cmd(message_text, ent), res)
         IN bot_commands_loop(
                message_text, ents, k + 1,
                IF ent.entity_type = "bot_command" /\ ~known
                THEN Append(res, [cmd |-> cmd(message_text, ent),
                                  params |-> params(message_text, ent)])
                ELSE res)

bot_commands_of_any_text(message_text, ents) ==
    bot_commands_loop(message_text, ents, 1, <<>>)

\* The property bot_commands: the loop runs for a str text only
bot_commands(message_text, ents) ==
    IF message_text = None THEN <<>>
    ELSE bot_commands_loop(message_text, ents, 1, <<>>)

\* Characters of the texts with commands: two that are no whitespace, the
\* space, and a whitespace that is not the space
CommandAlphabet == {"/", "a", " ", "\n"}

StartHelloWorld ==
    <<"/", "s", "t", "a", "r", "t", " ", "h", "e", "l", "l", "o", " ",
      "w", "o", "r", "l", "d">>

\* A command followed by two arguments with two spaces between them
TwoSpaces == <<"/", "a", " ", " ", "a">>

\* A command that does not start the text
LateCommand == <<"a", "/", "a", "a">>

\* A text in which two slices text[offset : length] are the same
RepeatedCommand == <<"a", "a", "a", "a", " ", "b">>

\* The enumerated texts of the messages with commands; None: a message
\* without text
CommandTexts == StringsUpTo(CommandAlphabet, MaxCommandTextLen) \cup {None}

\* bot_command entities and entities of another type
CommandEntityShapes ==
    {[entity_type |-> ty, url |-> None, tm_user |-> 0, language |-> None] :
        ty \in {"bot_command", "bold"}}

\* The entity lists of a message with commands: entities within the text,
\* any entities when the message has no text
CommandEntityLists(message_text) ==
    LET n == IF message_text = None THEN MaxCommandTextLen
             ELSE Len(message_text)
        within == {Entity(shape, span[1], span[2]) :
                     shape \in CommandEntityShapes,
                     span \in {sp \in (0..(n - 1)) \X (1..n) :
                                  sp[1] + sp[2] <= n}}
    IN UNION {[1..k -> within] : k \in 0..MaxCommandEntities}

\* An entity without payload
PlainEntity(type, offset, length) ==
    Entity([entity_type |-> type, url |-> None, tm_user |-> 0,
            language |-> None], offset, length)

\* Longer messages with commands
ExampleMessages ==
    {[text |-> StartHelloWorld,
      entities |-> <<PlainEntity("bot_command", 0, 6)>>],
     [text |-> StartHelloWorld,
      entities |-> <<PlainEntity("bold", 7, 5),
                     PlainEntity("bot_command", 0, 6)>>],
     [text |-> TwoSpaces,
      entities |-> <<PlainEntity("bot_command", 0, 1)>>],
     [text |-> LateCommand,
      entities |-> <<PlainEntity("bot_command", 1, 3),
                     PlainEntity("bot_command", 2, 2)>>],
     [text |-> RepeatedCommand,
      entities |-> <<PlainEntity("bot_command", 1, 3),
                     PlainEntity("bold", 0, 1),
                     PlainEntity("bot_command", 0, 1),
                     PlainEntity("bot_command", 0, 2)>>]}

\* Reading message.bot_commands
bot_commands_read ==
    /\ ~commands.read
    /\ commands' = [read |-> TRUE, items |-> bot_commands(text, entities)]
    /\ UNCHANGED <<text, entities, markdown, rerendered>>
    /\ UNCHANGED dispatcher_vars
    /\ UNCHANGED route_vars
    /\ UNCHANGED app_vars

\* A message with commands, as TelegramMessage.from_dict builds it
InitCommands ==
    /\ InitDispatcher
    /\ dump_updates = FALSE
    /\ \/ /\ text \in CommandTexts
          /\ entities \in CommandEntityLists(text)
       \/ \E message \in ExampleMessages :
             /\ text = message.text
             /\ entities = message.entities
    /\ markdown = NotCalled
    /\ rerendered = NotCalled
    /\ commands = NotRead

NextCommands ==
    \/ bot_commands_read
    \/ get_markdown_v2_text_call

SpecCommands == InitCommands /\ [][NextCommands]_vars

(***************************************************************************)
(* Entities built from the raw dicts of an update                          *)
(***************************************************************************)
\* The entity dicts of an update: the keys "type", "offset" and "length"
\* are there, "url", "user" and "language" may be missing (None, 0: the
\* value d.get gives for a missing key, no user).  The spans include
\* negative numbers, the payloads are there or not whatever the type is.
RawEntities ==
    [type : {"bold", "url", "text_link", "text_mention"},
     offset : -1..MaxRawSpan, length : -1..MaxRawSpan,
     url : {None, SomeUrl}, user : {0, 7}, language : {None, <<"p", "y">>}]

\* TelegramMessageEntity.from_dict(d, ...): the fields of d are copied as
\* they are; nothing is checked and nothing is raised.
from_dict(d) ==
    [entity_type |-> d.type, offset |-> d.offset, length |-> d.length,
     url |-> d.url, tm_user |-> d.user, language |-> d.language]

\* TelegramMessage.from_dict, one item of the list comprehension over
\* d.get("entities", []): the entity built from a raw dict joins
\* msg.entities
from_dict_call(d) ==
    /\ Len(entities) < MaxEntities
    /\ entities' = Append(entities, from_dict(d))
    /\ UNCHANGED <<text, markdown, rerendered, commands>>
    /\ UNCHANGED dispatcher_vars
    /\ UNCHANGED route_vars
    /\ UNCHANGED app_vars

\* A message whose entities are about to be built
InitFromDict ==
    /\ InitDispatcher
    /\ dump_updates = FALSE
    /\ text \in StringsUpTo({"a"}, MaxRawSpan)
    /\ entities = <<>>
    /\ markdown = NotCalled
    /\ rerendered = NotCalled
    /\ commands = NotRead

NextFromDict == \E d \in RawEntities : from_dict_call(d)

SpecFromDict == InitFromDict /\ [][NextFromDict]_vars

(***************************************************************************)
(* The registry of dispatchers: BotDispatcher._bots                        *)
(***************************************************************************)
\* BotDispatcher.__init__(token): a new object with no handlers, entered
\* into _bots under its token.  Gives the registry, the objects and the
\* new object (objects are numbered in the order they are made).
BotDispatcher_init(registry, objects, token) ==
    [bots |-> [registry EXCEPT ![token] = Len(objects) + 1],
     instances |-> Append(objects, <<>>),
     self |-> Len(objects) + 1]

\* dict.get(key, default)
dict_get(registry, key, default) ==
    IF registry[key] # 0 THEN registry[key] ELSE default

\* BotDispatcher.get(token): cls._bots.get(token, cls(token)).  The
\* argument cls(token) is evaluated before dict.get is called, so the
\* constructor has run when the lookup is made.
get(registry, objects, token) ==
    LET made == BotDispatcher_init(registry, objects, token)
    IN [bots |-> made.bots,
        instances |-> made.instances,
        self |-> dict_get(made.bots, token, made.self)]

\* create_app (or any caller): BotDispatcher.get(token)
get_call(token) ==
    /\ Len(instances) < MaxInstances
    /\ LET r == get(bots, instances, token)
       IN /\ bots' = r.bots
          /\ instances' = r.instances
          /\ op' = [name |-> "get", token |-> token, returned |-> r.self]
    /\ UNCHANGED dispatcher_vars
    /\ UNCHANGED route_vars
    /\ UNCHANGED message_vars
    /\ UNCHANGED worker_vars
    /\ UNCHANGED email_vars
    /\ UNCHANGED handler_vars

\* TelegramBot.register_bot(token): BotDispatcher(token)
register_bot(token) ==
    /\ Len(instances) < MaxInstances
    /\ LET r == BotDispatcher_init(bots, instances, token)
       IN /\ bots' = r.bots
          /\ instances' = r.instances
          /\ op' = [name |-> "register_bot", token |-> token,
                    returned |-> r.self]
    /\ UNCHANGED dispatcher_vars
    /\ UNCHANGED route_vars
    /\ UNCHANGED message_vars
    /\ UNCHANGED worker_vars
    /\ UNCHANGED email_vars
    /\ UNCHANGED handler_vars

\* @dispatcher.receive_update on a dispatcher object somebody holds
receive_update_on(d, f) ==
    /\ Len(instances[d]) < MaxRegistered
    /\ instances' = [instances EXCEPT ![d] = Append(@, f)]
    /\ op' = [name |-> "receive_update", token |-> "", returned |-> d]
    /\ UNCHANGED bots
    /\ UNCHANGED dispatcher_vars
    /\ UNCHANGED route_vars
    /\ UNCHANGED message_vars
    /\ UNCHANGED worker_vars
    /\ UNCHANGED email_vars
    /\ UNCHANGED handler_vars

NextRegistry ==
    \/ \E token \in Tokens : get_call(token)
    \/ \E token \in Tokens : register_bot(token)
    \/ \E d \in 1..Len(instances), f \in Handlers : receive_update_on(d, f)

SpecRegistry == Init /\ [][NextRegistry]_vars

(***************************************************************************)
(* Handler discovery: app.bot_handlers                                     *)
(***************************************************************************)
\* A parameter of a function: its name, its annotation ("empty": none) and
\* whether it has a default value
Param(name, annotation, has_default) ==
    [name |-> name, annotation |-> annotation, has_default |-> has_default]

\* The modules of the package app.bot_handlers named in the configuration:
\* sample_handler as it is in the repository, and modules whose function
\* handle_update has other parameters or that have no such function
HandlerModules ==
    {"sample_handler", "update_only", "update_default", "extra_param",
     "swapped", "annotated", "no_handler"}

\* Whether the module has a function handle_update
HasHandleUpdate(module) == module # "no_handler"

\* inspect.signature(module.handle_update).parameters
Signature(module) ==
    CASE module = "sample_handler" ->
            <<Param("bot_dispatcher", "BotDispatcher", FALSE),
              Param("update", "dict", FALSE)>>
      [] module = "update_only" -> <<Param("update", "dict", FALSE)>>
      [] module = "update_default" ->
            <<Param("bot_dispatcher", "empty", FALSE),
              Param("update", "empty", TRUE)>>
      [] module = "extra_param" ->
            <<Param("bot_dispatcher", "empty", FALSE),
              Param("update", "dict", FALSE),
              Param("context", "empty", FALSE)>>
      [] module = "swapped" ->
            <<Param("update", "dict", FALSE),
              Param("bot_dispatcher", "BotDispatcher", FALSE)>>
      [] module = "annotated" ->
            <<Param("bot_dispatcher", "str", FALSE),
              Param("update", "dict", FALSE)>>
      [] OTHER -> <<>>

\* Lines 64-75: the test try_register_handler_module makes on a module
IsValidHandler(module) ==
    /\ HasHandleUpdate(module)
    /\ LET parameters == Signature(module)
       IN /\ Len(parameters) >= 2
          /\ parameters[1].name = "bot_dispatcher"
          /\ parameters[1].annotation \in {"empty", "BotDispatcher"}
          /\ parameters[2].name = "update"
          /\ parameters[2].annotation \in {"empty", "dict"}

\* try_register_handler_module(bot, module): the function handle_update of
\* a valid module is appended to the chain of the dispatcher
try_register_handler_module(module) ==
    /\ rpc \in {"idle", "responded"}
    /\ Len(update_handlers) < MaxHandlers
    /\ update_handlers' = IF IsValidHandler(module)
                          THEN Append(update_handlers, module)
                          ELSE update_handlers
    /\ UNCHANGED <<pc, result, calls, returned>>
    /\ UNCHANGED route_vars
    /\ UNCHANGED message_vars
    /\ UNCHANGED app_vars

\* The call f(data) of process_update (line 89) binds one positional
\* argument: the function needs a first parameter, and every further
\* parameter needs a default
CallBinds(parameters) ==
    /\ Len(parameters) >= 1
    /\ \A k \in 2..Len(parameters) : parameters[k].has_default

\* One iteration of the loop of process_update over discovered handlers:
\* the call raises TypeError when the argument does not fit, and else ends
\* as the handler ends
process_update_call_discovered ==
    \E out \in HandlerOutcomes \cup {TypeError} :
        /\ pc = "loop"
        /\ out = TypeError
              <=> ~CallBinds(Signature(NextHandler(update_handlers,
                                                   Len(calls) + 1)))
        /\ process_update_call(out)

NextDiscovery ==
    \/ \E module \in HandlerModules : try_register_handler_module(module)
    \/ \E method \in Methods, payload \in Payloads :
          receive_update_request(method, payload)
    \/ receive_update_dump_fails
    \/ process_update_begin
    \/ process_update_call_discovered
    \/ receive_update_respond

SpecDiscovery == Init /\ [][NextDiscovery]_vars

(***************************************************************************)
(* Concurrent calls of BotDispatcher.process_update                        *)
(***************************************************************************)

\* A handler that answers with a dict made from the update it was given
Echo(data) == PyDict({<<"ok", "True">>, <<"update_id", data>>})

\* A handler that answers with a dict that has no key "ok"
EchoWithoutOk(data) == PyDict({<<"update_id", data>>})

\* What a handler that keeps no state can do with the update data
WorkerOutcomes(data) == {Echo(data), EchoWithoutOk(data), PyTrue, PyFalse, Raise}

Frame_shared(w) == 1

\* "result = dict()" is a local variable: every call of process_update has
\* a dict of its own, named here by the thread that makes the call.
Frame(w) == w

\* behaviour once f(data) has given out: the same call gives the same again
Learn(known, key, out) ==
    [k \in DOMAIN known \cup {key} |-> IF k = key THEN out ELSE known[k]]

\* The handlers are registered at startup, before any update is dispatched
receive_update_at_startup(f) ==
    /\ \A w \in Workers : workers[w].pc = "idle"
    /\ decorator(f)

\* A thread calls process_update(data): "result = dict()" and the start of
\* the loop over self.update_handlers. The two threads have different updates.
process_update_enter(w, data) ==
    /\ workers[w].pc = "idle"
    /\ \A v \in Workers \ {w} : workers[v].data # data
    /\ workers' = [workers EXCEPT ![w] =
                      [data |-> data,
                       pc |-> IF update_handlers = <<>> THEN "returned" ELSE "loop",
                       calls |-> <<>>,
                       overlapped |-> FALSE]]
    /\ logs' = [logs EXCEPT ![Frame(w)] = EmptyDict]
    /\ UNCHANGED <<behaviour, bots, instances, op>>
    /\ UNCHANGED email_vars
    /\ UNCHANGED handler_vars
    /\ UNCHANGED dispatcher_vars
    /\ UNCHANGED route_vars
    /\ UNCHANGED message_vars

\* One iteration of the loop in the call of thread w: f(data), the store
\* into result, the break test. The handler list is only read.
process_update_step(w) ==
    /\ workers[w].pc = "loop"
    /\ LET me == workers[w]
           n == Len(me.calls) + 1
           f == NextHandler(update_handlers, n)
           key == <<f, me.data>>
       IN \E out \in WorkerOutcomes(me.data) :
             /\ key \in DOMAIN behaviour => out = behaviour[key]
             /\ behaviour' = Learn(behaviour, key, out)
             /\ logs' = IF IsRaise(out) THEN logs
                        ELSE [logs EXCEPT ![Frame(w)] = DictSet(@, Label(f), out)]
             /\ workers' = [workers EXCEPT ![w] =
                   [data |-> me.data,
                    pc |-> PcAfterCall(out, n, Len(update_handlers)),
                    calls |-> Append(me.calls, [f |-> f, out |-> out, data |-> me.data]),
                    overlapped |-> me.overlapped
                                     \/ \E v \in Workers \ {w} : workers[v].pc = "loop"]]
    /\ UNCHANGED <<bots, instances, op>>
    /\ UNCHANGED email_vars
    /\ UNCHANGED handler_vars
    /\ UNCHANGED dispatcher_vars
    /\ UNCHANGED route_vars
    /\ UNCHANGED message_vars

NextConcurrent ==
    \/ \E f \in Handlers : receive_update_at_startup(f)
    \/ \E w \in Workers, data \in Updates : process_update_enter(w, data)
    \/ \E w \in Workers : process_update_step(w)

SpecConcurrent == Init /\ [][NextConcurrent]_vars

(***************************************************************************)
(* common.email_list                                                       *)
(***************************************************************************)

\* Longest email strings that are enumerated
MaxEmailLen == 5

Quote == "\""

\* [A-Za-z0-9_\-.] as far as the strings here hold such characters
EmailChars == {"a", "b", "c", "m", "o", "0", "_", "-", "."}

\* [^"<]
NotNameChars == {Quote, "<"}

\* How many characters of the class follow from position p on (greedy +)
Run(string, p, class) ==
    CHOOSE k \in 0..(Len(string) + 1 - p) :
        /\ \A i \in p..(p + k - 1) : string[i] \in class
        /\ (p + k > Len(string) \/ string[p + k] \notin class)

NoEmail == [ok |-> FALSE, email |-> <<>>, end |-> 0]

\* (?:<?([A-Za-z0-9_\-.]+@[A-Za-z0-9_\-.]+)>?) tried at position p: the
\* second group and the position of the last character the match takes
EmailAt(string, p) ==
    LET q == IF p <= Len(string) /\ string[p] = "<" THEN p + 1 ELSE p
        at == q + Run(string, q, EmailChars)
        domain == IF at <= Len(string) /\ string[at] = "@"
                  THEN Run(string, at + 1, EmailChars) ELSE 0
        last == at + domain
    IN IF at > q /\ domain >= 1
       THEN [ok |-> TRUE, email |-> SubSeq(string, q, last),
             end |-> IF last < Len(string) /\ string[last + 1] = ">"
                     THEN last + 1 ELSE last]
       ELSE NoEmail

\* (?:"?([^"<]+)"?\s)? with n characters in the first group, followed by
\* the address: the position where the address starts, 0 when this fails
NameOfLength(string, n) ==
    LET first == IF string # <<>> /\ string[1] = Quote THEN 2 ELSE 1
        after == first + n
        space == IF after <= Len(string) /\ string[after] = Quote
                 THEN after + 1 ELSE after
    IN IF /\ space <= Len(string)
          /\ \A i \in first..(after - 1) : string[i] \notin NotNameChars
          /\ string[space] \in Whitespace
          /\ EmailAt(string, space + 1).ok
       THEN space + 1 ELSE 0

NoMatch == [matched |-> FALSE, name |-> None, email |-> <<>>, end |-> 0]

\* name_and_email_regex.match(string): the groups (name, email) and where
\* the match ends; the name is None when the optional part took nothing.
\* The longest possible name is tried first.
name_and_email_regex_match(string) ==
    LET lengths == {n \in 1..Len(string) : NameOfLength(string, n) # 0}
    IN IF lengths # {}
       THEN LET n == CHOOSE m \in lengths : \A o \in lengths : o <= m
                first == IF string[1] = Quote THEN 2 ELSE 1
                address == EmailAt(string, NameOfLength(string, n))
            IN [matched |-> TRUE, name |-> SubSeq(string, first, first + n - 1),
                email |-> address.email, end |-> address.end]
       ELSE LET address == EmailAt(string, 1)
            IN IF address.ok
               THEN [matched |-> TRUE, name |-> None,
                     email |-> address.email, end |-> address.end]
               ELSE NoMatch

\* email_list(email_string, delimiter)
email_list(string, delimiter) ==
    IF string = None
    THEN [status |-> "TypeError", items |-> <<>>, email_address |-> <<>>]
    ELSE LET parts == split(string, delimiter)
             found == [i \in 1..Len(parts) |-> name_and_email_regex_match(strip(parts[i]))]
             failed == {i \in 1..Len(parts) : ~found[i].matched}
         IN IF failed # {}
            THEN [status |-> "EInvalidEmailAddress", items |-> <<>>,
                  email_address |->
                      strip(parts[CHOOSE i \in failed : \A j \in failed : i <= j])]
            ELSE [status |-> "returned",
                  items |-> [i \in 1..Len(parts) |->
                                [name |-> found[i].name, email |-> found[i].email]],
                  email_address |-> <<>>]

EmailAlphabet == {"a", "@", "#", " ", ";", "<"}

\* 'a@b;m o <c@b>;"m" <a@c' and 'a@b; m <c#b>; a@c'
EmailExamples ==
    {<<"a", "@", "b", ";", "m", " ", "o", " ", "<", "c", "@", "b", ">", ";",
       Quote, "m", Quote, " ", "<", "a", "@", "c">>,
     <<"a", "@", "b", ";", " ", "m", " ", "<", "c", "#", "b", ">", ";", " ",
       "a", "@", "c">>,
     <<"m", " ", "<", "a", "@", "b", "#", "c", ".", "o", ">">>,
     <<"a", "@", "b", ";", "c", "@", "b", ";">>}

\* The arguments email_list is called with: strings, and None
EmailStrings == StringsUpTo(EmailAlphabet, MaxEmailLen) \cup EmailExamples \cup {None}

\* One call of email_list with the default delimiter
email_list_call(string) ==
    /\ emails = NotParsed
    /\ email_string' = string
    /\ emails' = email_list(string, ";")
    /\ UNCHANGED <<bots, instances, op>>
    /\ UNCHANGED handler_vars
    /\ UNCHANGED worker_vars
    /\ UNCHANGED dispatcher_vars
    /\ UNCHANGED route_vars
    /\ UNCHANGED message_vars

NextEmail == \E string \in EmailStrings : email_list_call(string)

SpecEmail == Init /\ [][NextEmail]_vars

(***************************************************************************)
(* UpdateHandler of app.bot_handlers.sample_handler and the tables it uses *)
(***************************************************************************)

\* Calls of the Bot API that the handling of one message can make
MaxApiCalls == 3

\* What a call of the Bot API gives: a dict with "ok": True and a result, a
\* dict without them, or an exception of the request
ApiAnswers == {"ok", "not ok", "raises"}

BotUser == "bot"

Nobody == "nobody"

StartCommand ==
    <<"/", "s", "t", "a", "r", "t">>

StopCommand ==
    <<"/", "s", "t", "o", "p">>

HiStop ==
    <<"h", "i", " ", "/", "s", "t", "o", "p">>

StartStop ==
    <<"/", "s", "t", "a", "r", "t", " ", "/", "s", "t", "o", "p">>

SetAdminChannel ==
    <<"/", "s", "e", "t", "_", "a", "d", "m", "i", "n", "_", "c", "h", "a",
      "n", "n", "e", "l">>

RevokeAdminChannel ==
    <<"/", "r", "e", "v", "o", "k", "e", "_", "a", "d", "m", "i", "n", "_",
      "c", "h", "a", "n", "n", "e", "l">>

SetForwardChannel ==
    <<"/", "s", "e", "t", "_", "f", "o", "r", "w", "a", "r", "d", "_", "c",
      "h", "a", "n", "n", "e", "l">>

RevokeForwardChannel ==
    <<"/", "r", "e", "v", "o", "k", "e", "_", "f", "o", "r", "w", "a", "r",
      "d", "_", "c", "h", "a", "n", "n", "e", "l">>

\* str.startswith
StartsWith(string, start) ==
    /\ Len(string) >= Len(start)
    /\ SubSeq(string, 1, Len(start)) = start

\* The handling of one message: the committed rows, the rows as the session
\* of the request sees them, the API calls made, and whether an exception
\* is on its way out
StartRun(db) == [committed |-> db, session |-> db, sent |-> <<>>, raised |-> FALSE]

\* PersistableMixin.persist: session.merge(self), session.commit()
persist(run) == [run EXCEPT !.committed = run.session]

\* The end of the request: the session is removed, what was not committed
\* is rolled back
shutdown_session(run) == run.committed

\* TelegramUser.is_subscriber
is_subscriber(db, user) == db.subs[user] = "active"

is_admin_any_row(db, user) == db.admins[user] # "none"

\* TelegramUser.is_admin
is_admin(db, user) == db.admins[user] = "active"

\* TelegramUser.subscribe: a new active row, or the row made active
subscribe(db, user) == [db EXCEPT !.subs[user] = "active"]

\* TelegramUser.unsubscribe: an active row is made inactive
unsubscribe(db, user) ==
    IF db.subs[user] = "active" THEN [db EXCEPT !.subs[user] = "inactive"] ELSE db

\* TelegramUser.set_admin, TelegramUser.revoke_admin
set_admin(db, user) == [db EXCEPT !.admins[user] = "active"]

revoke_admin(db, user) == [db EXCEPT !.admins[user] = "inactive"]

\* TelegramChat.is_admin_channel, TelegramChat.is_forward_channel
is_admin_channel(db, chat) ==
    chat.type_code \in {"g", "s"} /\ chat.id \in db.chats_admin

is_forward_channel(db, chat) ==
    chat.type_code \in {"g", "s"} /\ chat.id \in db.chats_forward

\* TelegramChat.set_admin_channel and the like, for a group chat
set_admin_channel(db, chat) == [db EXCEPT !.chats_admin = @ \cup {chat.id}]

revoke_admin_channel(db, chat) == [db EXCEPT !.chats_admin = @ \ {chat.id}]

set_forward_channel(db, chat) == [db EXCEPT !.chats_forward = @ \cup {chat.id}]

revoke_forward_channel(db, chat) == [db EXCEPT !.chats_forward = @ \ {chat.id}]

LastAnswer(run) == run.sent[Len(run.sent)].answer

\* BotDispatcher.invoke_request: the call, and the exception when the
\* request fails
invoke_request(run, method, chat_id, what, answers) ==
    LET answer == answers[Len(run.sent) + 1]
    IN [run EXCEPT !.sent = Append(@, [method |-> method, chat_id |-> chat_id,
                                       what |-> what, answer |-> answer]),
                   !.raised = (answer = "raises")]

\* UpdateHandler.send_message: the sent message is persisted when the
\* answer is ok and has a result; otherwise the answer is logged
send_message(run, chat_id, what, answers) ==
    LET called == invoke_request(run, "sendMessage", chat_id, what, answers)
    IN IF ~called.raised /\ LastAnswer(called) = "ok" THEN persist(called)
       ELSE called

RECURSIVE forward_message_to_chats(_, _, _, _)
\* UpdateHandler.forward_message_to_chats: a forwardMessage call for each
\* chat; the forwarded message is persisted, a KeyError for an answer
\* without result is logged
forward_message_to_chats(run, message, chats, answers) ==
    IF chats = {} THEN run
    ELSE LET chat_id == CHOOSE c \in chats : TRUE
             called == invoke_request(run, "forwardMessage", chat_id, "forward", answers)
         IN IF called.raised THEN called
            ELSE forward_message_to_chats(
                     IF LastAnswer(called) = "ok" THEN persist(called) ELSE called,
                     message, chats \ {chat_id}, answers)

\* UpdateHandler.forward_message_to_forward_chats
forward_message_to_forward_chats(run, message, answers) ==
    forward_message_to_chats(run, message, run.session.chats_forward, answers)

RECURSIVE notify_forward_chats(_, _, _)
\* Lines 157-164: the exception is reported to every forward chat with
\* BotDispatcher.send_message
notify_forward_chats(run, chats, answers) ==
    IF chats = {} THEN run
    ELSE LET chat_id == CHOOSE c \in chats : TRUE
             called == invoke_request(run, "sendMessage", chat_id, "exception", answers)
         IN IF called.raised THEN called
            ELSE notify_forward_chats(called, chats \ {chat_id}, answers)

\* UpdateHandler.process_private_incoming_message
process_private_incoming_message(run, message, answers) ==
    LET user == message.from_user
        cmds == bot_commands(message.text, message.entities)
        tried ==
            IF is_subscriber(run.session, user)
            THEN IF InResult(StopCommand, cmds)
                 THEN send_message([run EXCEPT !.session = unsubscribe(@, user)],
                                   user, "stop", answers)
                 ELSE IF InResult(StartCommand, cmds)
                 THEN send_message(run, user, "already_sub", answers)
                 ELSE LET confirmed == send_message(run, user, "receive_confirmation", answers)
                      IN IF confirmed.raised THEN confirmed
                         ELSE forward_message_to_forward_chats(confirmed, message, answers)
            ELSE IF InResult(StartCommand, cmds)
                 THEN send_message([run EXCEPT !.session = subscribe(@, user)],
                                   user, "start", answers)
                 ELSE send_message(run, user, "inactive_sub", answers)
    IN IF tried.raised
       THEN notify_forward_chats([tried EXCEPT !.raised = FALSE],
                                 tried.session.chats_forward, answers)
       ELSE tried

\* UpdateHandler.process_group_bot_reply
process_group_bot_reply(run, message, answers) ==
    LET origin == message.reply_to_message.forward_from
        chat == message.chat
    IN IF origin = Nobody THEN run
       ELSE IF ~is_subscriber(run.session, origin)
       THEN send_message(run, chat.id, "reply to non-subscriber", answers)
       ELSE IF ~is_admin(run.session, message.from_user)
       THEN send_message(run, chat.id, "only admins", answers)
       ELSE IF /\ ~is_admin_channel(run.session, chat)
               /\ ~is_forward_channel(run.session, chat)
       THEN send_message(run, chat.id, "not an admin channel", answers)
       ELSE LET relayed == send_message(run, origin, "reply", answers)
            IN IF relayed.raised THEN relayed
               ELSE send_message(relayed, chat.id, "forwarded your reply", answers)

\* UpdateHandler.process_group_admin_message, for the texts of the group
\* messages here: they start with none of /set_text, /get_text, /id, /subs
process_group_admin_message(run, message, answers) ==
    LET chat == message.chat
    IN IF message.text = None \/ message.text = <<>> THEN run
       ELSE IF StartsWith(message.text, SetAdminChannel)
       THEN send_message([run EXCEPT !.session = set_admin_channel(@, chat)],
                         chat.id, "set as admin channel", answers)
       ELSE IF StartsWith(message.text, RevokeAdminChannel)
       THEN send_message([run EXCEPT !.session = revoke_admin_channel(@, chat)],
                         chat.id, "unset as admin channel", answers)
       ELSE IF StartsWith(message.text, SetForwardChannel)
       THEN send_message([run EXCEPT !.session = set_forward_channel(@, chat)],
                         chat.id, "set as forward channel", answers)
       ELSE IF StartsWith(message.text, RevokeForwardChannel)
       THEN send_message([run EXCEPT !.session = revoke_forward_channel(@, chat)],
                         chat.id, "unset as forward channel", answers)
       ELSE run

\* UpdateHandler.process_group_incoming_message
process_group_incoming_message(run, message, answers) ==
    IF message.reply_to_message.present
    THEN IF message.reply_to_message.from_user = BotUser
         THEN process_group_bot_reply(run, message, answers)
         ELSE run
    ELSE IF is_admin(run.session, message.from_user)
    THEN process_group_admin_message(run, message, answers)
    ELSE run

\* UpdateHandler.process_message: the message is persisted, then handled
\* by the type of its chat
process_message(run, message, answers) ==
    LET saved == persist(run)
    IN IF message.from_user \in {Nobody, BotUser} THEN saved
       ELSE IF message.chat.type_code = "p"
       THEN process_private_incoming_message(saved, message, answers)
       ELSE IF message.chat.type_code \in {"g", "s"}
       THEN process_group_incoming_message(saved, message, answers)
       ELSE saved

NoReply == [present |-> FALSE, from_user |-> Nobody, forward_from |-> Nobody]

\* The private messages: the two commands, a text without command, a /stop
\* that does not start the text, /start followed by /stop, and the same text
\* with a second entity whose slice text[offset : length] is /stop
PrivateTexts ==
    {[text |-> StartCommand, entities |-> <<PlainEntity("bot_command", 0, 6)>>],
     [text |-> StopCommand, entities |-> <<PlainEntity("bot_command", 0, 5)>>],
     [text |-> <<"h", "i">>, entities |-> <<>>],
     [text |-> HiStop, entities |-> <<PlainEntity("bot_command", 3, 5)>>],
     [text |-> StartStop, entities |-> <<PlainEntity("bot_command", 0, 6),
                                         PlainEntity("bot_command", 7, 5)>>],
     [text |-> StartStop, entities |-> <<PlainEntity("bot_command", 0, 6),
                                         PlainEntity("bot_command", 7, 12)>>]}

PrivateMessages ==
    {[kind |-> "message", chat |-> [id |-> user, type_code |-> "p"],
      from_user |-> user, text |-> t.text, entities |-> t.entities,
      reply_to_message |-> NoReply] : user \in Users, t \in PrivateTexts}

GroupTexts ==
    {SetAdminChannel, RevokeAdminChannel, SetForwardChannel,
     RevokeForwardChannel, <<"o", "k">>}

\* The messages in the group chat: commands and other texts, and replies to
\* a message of the bot or of a user, forwarded from a user or not
GroupMessages ==
    {[kind |-> "message", chat |-> [id |-> GroupChat, type_code |-> "g"],
      from_user |-> user, text |-> t, entities |-> <<>>,
      reply_to_message |-> NoReply] : user \in Users, t \in GroupTexts}
    \cup
    {[kind |-> "message", chat |-> [id |-> GroupChat, type_code |-> "g"],
      from_user |-> user, text |-> <<"o", "k">>, entities |-> <<>>,
      reply_to_message |-> [present |-> TRUE, from_user |-> author,
                            forward_from |-> origin]] :
        user \in Users, author \in Users \cup {BotUser},
        origin \in Users \cup {Nobody}}

\* A post in a channel: it has no sender
ChannelPosts ==
    {[kind |-> "message", chat |-> [id |-> "channel", type_code |-> "c"],
      from_user |-> Nobody, text |-> <<"o", "k">>, entities |-> <<>>,
      reply_to_message |-> NoReply]}

IncomingMessages == PrivateMessages \cup GroupMessages \cup ChannelPosts

\* The answers given so far, followed by ok answers
Pad(given) ==
    [k \in 1..MaxApiCalls |-> IF k <= Len(given) THEN given[k] ELSE "ok"]

RECURSIVE AnswerLists(_, _, _)
\* The answers the Bot API can give to the calls that the handling of the
\* message makes, one for each call: what a call is answered decides
\* which calls follow
AnswerLists(db, message, given) ==
    IF Len(process_message(StartRun(db), message, Pad(given)).sent) <= Len(given)
    THEN {given}
    ELSE UNION {AnswerLists(db, message, Append(given, answer)) :
                   answer \in ApiAnswers}

\* handle_update(bot_dispatcher, update) for an update with a message, from
\* UpdateHandler.process_update to the end of the request. The answers of
\* the Bot API are the environment's.
handle_update(message, answers) ==
    /\ LET run == process_message(StartRun(store), message, Pad(answers))
       IN /\ store' = shutdown_session(run)
          /\ handled' = [message |-> message, before |-> store,
                         sent |-> run.sent, raised |-> run.raised]
    /\ UNCHANGED <<bots, instances, op>>
    /\ UNCHANGED worker_vars
    /\ UNCHANGED email_vars
    /\ UNCHANGED dispatcher_vars
    /\ UNCHANGED route_vars
    /\ UNCHANGED message_vars

\* The bot's operator makes a user an admin or revokes it, and commits
set_admin_call(user) ==
    /\ store' = set_admin(store, user)
    /\ handled' = NotHandled
    /\ UNCHANGED <<bots, instances, op>>
    /\ UNCHANGED worker_vars
    /\ UNCHANGED email_vars
    /\ UNCHANGED dispatcher_vars
    /\ UNCHANGED route_vars
    /\ UNCHANGED message_vars

revoke_admin_call(user) ==
    /\ store' = revoke_admin(store, user)
    /\ handled' = NotHandled
    /\ UNCHANGED <<bots, instances, op>>
    /\ UNCHANGED worker_vars
    /\ UNCHANGED email_vars
    /\ UNCHANGED dispatcher_vars
    /\ UNCHANGED route_vars
    /\ UNCHANGED message_vars

NextHandlerApp ==
    \/ \E message \in IncomingMessages :
          \E answers \in AnswerLists(store, message, <<>>) :
             handle_update(message, answers)
    \/ \E user \in Users : set_admin_call(user)
    \/ \E user \in Users : revoke_admin_call(user)

\* The application with its tables as EmptyStore has them, before the
\* first update
InitHandler ==
    /\ InitDispatcher
    /\ dump_updates = FALSE
    /\ text = <<>>
    /\ entities = <<>>
    /\ markdown = NotCalled
    /\ rerendered = NotCalled
    /\ commands = NotRead

SpecHandler == InitHandler /\ [][NextHandlerApp]_vars

(***************************************************************************)
(* Properties of the dispatcher and of the view                            *)
(***************************************************************************)

\* The handler's return value stops the chain per the stated rule: it is
\* falsy, or it is a mapping whose "ok" entry is present and is not true.
StopsChain(val) ==
    \/ ~Truthy(val)
    \/ (IsDict(val) /\ HasKey(val, "ok") /\ GetItem(val, "ok") # "True")

\* The calls made so far are the first handlers of the chain, in order.
CalledInRegistrationOrder ==
    /\ Len(calls) <= Len(update_handlers)
    /\ \A k \in 1..Len(calls) : calls[k].f = update_handlers[k]

\* A step changes the chain only by appending one handler at its end, and
\* never while process_update runs.
ChainOnlyAppended ==
    \/ update_handlers' = update_handlers
    \/ /\ pc = "idle"
       /\ Len(update_handlers') = Len(update_handlers) + 1
       /\ SubSeq(update_handlers', 1, Len(update_handlers)) = update_handlers

\* C1: every dispatch calls the handlers in the order of their registration
\* (the calls of a dispatch are always a prefix of the chain, and the chain
\* only ever grows at its end), and no step of a dispatch changes the chain.
C1_DispatchOrder ==
    /\ [](CalledInRegistrationOrder)
    /\ [][ChainOnlyAppended]_vars

\* C1 witness: a dispatch that has called three different handlers.
C1_Witness ==
    /\ pc = "returned"
    /\ Len(calls) = 3
    /\ update_handlers = <<"b", "a", "b2">>

\* C2: when process_update has returned after a handler stopped the chain,
\* the log has an entry for that handler and for every earlier one (under
\* the handler's label, holding that handler's return value) and no entry
\* for any handler registered after it.
C2_ShortCircuitLog ==
    (pc = "returned" /\ calls # <<>> /\ StopsChain(calls[Len(calls)].out))
        => \A j \in 1..Len(update_handlers) :
              IF j <= Len(calls)
              THEN /\ Label(update_handlers[j]) \in DOMAIN returned.log
                   /\ returned.log[Label(update_handlers[j])] = calls[j].out
              ELSE Label(update_handlers[j]) \notin DOMAIN returned.log

\* C3: a handler that returned a truthy value which is not a mapping with
\* an "ok" entry different from true does not end the dispatch: the
\* dispatch does not fail there, and the next handler is called.
C3_TruthyContinues ==
    \A k \in 1..Len(calls) :
        (calls[k].out # Raise /\ ~StopsChain(calls[k].out))
            => /\ ~(pc = "raised" /\ k = Len(calls))
               /\ (k < Len(update_handlers) => (k < Len(calls) \/ pc = "loop"))

\* C4: the returned log has as many entries as handlers were called.
C4_OneEntryPerCall ==
    pc = "returned" => Cardinality(DOMAIN returned.log) = Len(calls)

\* C5: when a handler raises, the exception leaves process_update: the
\* raising call is the last call of the dispatch, process_update is left by
\* the exception while its caller (the view) waits for it, and no log is
\* returned.
C5_RaisePropagates ==
    \A k \in 1..Len(calls) :
        calls[k].out = Raise
            => /\ k = Len(calls)
               /\ pc = "raised"
               /\ rpc = "dispatching"
               /\ ~returned.done

\* C5 witness: the first of three handlers raised.
C5_Witness ==
    /\ pc = "raised"
    /\ Len(update_handlers) = 3
    /\ Len(calls) = 1
    /\ calls[1].out = Raise

\* C6: a POSTed update (a payload with update_id) is answered with the ok
\* acknowledgment, whatever happened while it was processed.
C6_UpdateAcknowledged ==
    (rpc = "responded" /\ request.method = "POST" /\ request.payload = "update")
        => response = default_ok_response

\* C6 witness: the view has answered an update for which process_update
\* raised (nothing is dumped, so the logged exception is the dispatcher's).
C6_Witness ==
    /\ rpc = "responded"
    /\ ~dump_updates
    /\ update_handlers # <<>>
    /\ request.method = "POST"
    /\ request.payload = "update"
    /\ logged = <<MsgProcessing>>
    /\ response = default_ok_response

\* C7: a POST whose payload has no update_id is logged and answered with
\* the ok acknowledgment.
C7_MalformedAcknowledged ==
    (rpc = "responded" /\ request.method = "POST"
        /\ request.payload = "no_update_id")
        => /\ logged # <<>>
           /\ response = default_ok_response


(***************************************************************************)
(* Properties of get_markdown_v2_text                                      *)
(***************************************************************************)

\* The common escape set as the specification lists it
CommonMarkupCharacters ==
    {"_", "*", "[", "]", "(", ")", "~", Backtick, ">", "#", "+", "-", "=",
     "|", "{", "}", ".", "!"}

\* How many of the first i characters of the text are common markup
CommonUpTo(i) == Cardinality({j \in 1..i : text[j] \in CommonMarkupCharacters})

\* C8: for a text without entities the output is the text with one
\* backslash before every common markup character and no other change:
\* character i of the text is at place i + CommonUpTo(i) of the output,
\* directly after a backslash when it is a common markup character, and
\* the output holds nothing else.
C8_PlainTextEscaped ==
    (markdown # NotCalled /\ entities = <<>>)
        => /\ markdown.status = "returned"
           /\ markdown.is_str
           /\ LET out == Chars(markdown.tokens)
              IN /\ Len(out) = Len(text) + CommonUpTo(Len(text))
                 /\ \A i \in 1..Len(text) :
                       /\ out[i + CommonUpTo(i)] = text[i]
                       /\ text[i] \in CommonMarkupCharacters
                            => out[i + CommonUpTo(i) - 1] = "\\"

\* C8 witness: a rendered text with a backslash, a common markup character
\* and a plain character
C8_Witness ==
    /\ markdown.status = "returned"
    /\ entities = <<>>
    /\ text = <<"!", "\\">>
    /\ Chars(markdown.tokens) = <<"\\", "!", "\\">>

\* The spans of entities number i and j are nested or disjoint
NestedOrDisjoint(i, j) ==
    LET a == entities[i].offset
        b == a + entities[i].length
        c == entities[j].offset
        d == c + entities[j].length
    IN \/ b <= c
       \/ d <= a
       \/ (a <= c /\ d <= b)
       \/ (c <= a /\ b <= d)

\* The entities are pairwise nested or disjoint and lie within the text
WellNested ==
    /\ \A i \in 1..Len(entities) :
          entities[i].offset + entities[i].length <= Len(text)
    /\ \A i, j \in 1..Len(entities) : NestedOrDisjoint(i, j)

IsTextToken(token) == token.src = "text"

\* C9: for well nested entities, what is left of the output when the
\* entity markup and the inserted backslashes are removed is the text:
\* every character of the text once, in order.
C9_TextEmittedOnce ==
    (markdown.status = "returned" /\ markdown.is_str /\ WellNested)
        => LET emitted == SelectSeq(markdown.tokens, IsTextToken)
           IN /\ Len(emitted) = Len(text)
              /\ \A i \in 1..Len(emitted) : emitted[i].pos = i

\* C10: of two entities that start at the same offset, the longer one is
\* the outer wrapper: whenever the longer one has markup in the output,
\* everything written for the shorter one (its markup and the characters
\* of its span) lies between the opening and the closing markup of the
\* longer one.
C10_LongerIsOuter ==
    (markdown.status = "returned" /\ markdown.is_str)
        => \A i, j \in 1..Len(entities) :
              (entities[i].offset = entities[j].offset
                  /\ entities[i].length > entities[j].length)
              => LET toks == markdown.tokens
                     Outer == {k \in 1..Len(toks) : toks[k].e = i}
                     Inner == {k \in 1..Len(toks) :
                                 \/ toks[k].e = j
                                 \/ /\ toks[k].src = "text"
                                    /\ toks[k].pos > entities[j].offset
                                    /\ toks[k].pos <= entities[j].offset
                                                      + entities[j].length}
                 IN Outer # {}
                      => \A k \in Inner :
                            /\ \E o \in Outer : o < k
                            /\ \E o \in Outer : k < o

\* Entity number i is a code or pre entity
IsFence(i) == entities[i].entity_type \in {"code", "pre"}

\* The span of entity number j lies within the span of entity number i and
\* is shorter
StrictlyWithin(j, i) ==
    /\ entities[i].offset <= entities[j].offset
    /\ entities[j].offset + entities[j].length
          <= entities[i].offset + entities[i].length
    /\ entities[j].length < entities[i].length

\* The places of the output where the characters of entity j's span are
TextPlaces(j) ==
    {k \in 1..Len(markdown.tokens) :
        /\ markdown.tokens[k].src = "text"
        /\ markdown.tokens[k].pos > entities[j].offset
        /\ markdown.tokens[k].pos <= entities[j].offset + entities[j].length}

\* C11: an entity whose span lies within a code or pre entity shows in the
\* output as literal text inside the fence only: nothing of the output is
\* markup of the inner entity, and each character of its span is in the
\* output once, between the opening and the closing fence.
C11_InnerOfCodeIsLiteral ==
    (markdown.status = "returned" /\ markdown.is_str)
        => \A i, j \in 1..Len(entities) :
              (IsFence(i) /\ StrictlyWithin(j, i))
              => LET toks == markdown.tokens
                     Fence == {k \in 1..Len(toks) : toks[k].e = i}
                 IN /\ \A k \in 1..Len(toks) : toks[k].e # j
                    /\ Cardinality(TextPlaces(j)) = entities[j].length
                    /\ \A k \in TextPlaces(j) :
                          /\ \E o \in Fence : o < k
                          /\ \E o \in Fence : k < o

\* The places of the output between the opening and the closing markup of
\* entity number i
InsideMarkup(i) ==
    {k \in 1..Len(markdown.tokens) :
        /\ \E o \in 1..(k - 1) : /\ markdown.tokens[o].e = i
                                 /\ markdown.tokens[o].src = "open"
        /\ \E o \in (k + 1)..Len(markdown.tokens) :
              /\ markdown.tokens[o].e = i
              /\ markdown.tokens[o].src = "close"}

\* The output has an inserted backslash directly before place k
EscapedAt(k) == k > 1 /\ markdown.tokens[k - 1].src = "esc"

\* C12: between the fences of a code or pre entity a backslash is inserted
\* before every backtick of the text and before no character that is in
\* the common set only.
C12_CodeEscapedNarrow ==
    (markdown.status = "returned" /\ markdown.is_str)
        => \A i \in 1..Len(entities) :
              IsFence(i)
              => \A k \in InsideMarkup(i) :
                    markdown.tokens[k].src = "text"
                    => /\ markdown.tokens[k].c = Backtick => EscapedAt(k)
                       /\ markdown.tokens[k].c
                             \in CommonMarkupCharacters \ {Backtick}
                          => ~EscapedAt(k)

\* Entity number i is rendered as an inline link [x](u)
IsLink(i) ==
    /\ entities[i].entity_type \in {"url", "text_link"}
    /\ entities[i].url # None

\* Character number pos of the text is in the span of entity number i
InSpan(pos, i) ==
    /\ pos > entities[i].offset
    /\ pos <= entities[i].offset + entities[i].length

\* C13: in a link [x](u) the closing parentheses of the URL u are escaped,
\* and every character of the link text x that belongs to no other entity
\* is escaped by the common set: it has a backslash before it exactly when
\* it is a common markup character.
C13_LinkTextEscapedCommon ==
    (markdown.status = "returned" /\ markdown.is_str)
        => \A i \in 1..Len(entities) :
              IsLink(i)
              => \A k \in 1..Len(markdown.tokens) :
                    LET token == markdown.tokens[k]
                    IN /\ (token.src = "url" /\ token.e = i /\ token.c = ")")
                          => EscapedAt(k)
                       /\ (/\ token.src = "text"
                           /\ InSpan(token.pos, i)
                           /\ \A j \in 1..Len(entities) :
                                 j # i => ~InSpan(token.pos, j))
                          => (EscapedAt(k)
                                <=> token.c \in CommonMarkupCharacters)

\* Rendering entity number i writes markup around its text
HasMarkup(i) ==
    \/ entities[i].entity_type \in {"bold", "italic", "underline",
                                    "strikethrough", "code", "pre"}
    \/ IsLink(i)
    \/ entities[i].entity_type = "text_mention" /\ entities[i].tm_user # 0

\* The places of the output where an opening markup of entity i starts
MarkupStarts(i) ==
    {k \in 1..Len(markdown.tokens) :
        /\ markdown.tokens[k].e = i
        /\ markdown.tokens[k].src = "open"
        /\ k > 1 => ~(/\ markdown.tokens[k - 1].e = i
                      /\ markdown.tokens[k - 1].src = "open")}

\* How often process_entity was entered for entity number i
TimesEntered(i) ==
    Cardinality({k \in 1..Len(markdown.entered) : markdown.entered[k] = i})

\* C14: in a render that returns, process_entity is entered exactly once
\* for every entity of the message, and the markup of an entity that has
\* markup is in the output exactly once.
C14_RenderedOnce ==
    (markdown.status = "returned" /\ markdown.is_str)
        => \A i \in 1..Len(entities) :
              /\ TimesEntered(i) = 1
              /\ Cardinality(MarkupStarts(i)) = IF HasMarkup(i) THEN 1 ELSE 0

\* C14 witness: an italic entity within a bold one, matched by the
\* top-level call and by the call for the bold entity, rendered once
C14_Witness ==
    /\ markdown.status = "returned"
    /\ Len(entities) = 2
    /\ entities[1].entity_type = "bold"
    /\ entities[2].entity_type = "italic"
    /\ StrictlyWithin(2, 1)
    /\ markdown.entered = <<1, 2>>
    /\ Cardinality(MarkupStarts(2)) = 1

\* C15: every call of get_markdown_v2_text on a message with a string text
\* returns a string.
C15_RenderTotal ==
    (markdown # NotCalled /\ text # None)
        => /\ markdown.status = "returned"
           /\ markdown.is_str

(***************************************************************************)
(* Properties of entity construction                                       *)
(***************************************************************************)

\* The fields of an entity are acceptable: no negative offset or length,
\* the payload its type requires is there, no payload its type does not
\* accept
ValidEntity(ent) ==
    /\ ent.offset >= 0
    /\ ent.length >= 0
    /\ ent.entity_type \in {"url", "text_link"} <=> ent.url # None
    /\ ent.entity_type = "text_mention" <=> ent.tm_user # 0
    /\ ent.language # None => ent.entity_type = "pre"

\* C16: construction from raw fields that are not acceptable fails and
\* yields no entity: every entity a message holds has acceptable fields.
C16_InvalidEntityRejected ==
    \A i \in 1..Len(entities) : ValidEntity(entities[i])

(***************************************************************************)
(* Properties of a message without text and of bot_commands                *)
(***************************************************************************)

\* C17: for a message whose text is not a string, get_markdown_v2_text
\* returns that value (no string, nothing raised) without entering
\* process_entity for any entity, and bot_commands is the empty mapping,
\* whatever the entities are.
C17_NoTextNoError ==
    text = None
        => /\ markdown # NotCalled
              => /\ markdown.status = "returned"
                 /\ ~markdown.is_str
                 /\ markdown.tokens = <<>>
                 /\ markdown.entered = <<>>
           /\ commands.read => commands.items = <<>>

\* C17 witness: a message without text that has a bot_command entity and a
\* bold entity, rendered and asked for its commands
C17_Witness ==
    /\ text = None
    /\ Len(entities) = 2
    /\ entities[1].entity_type = "bot_command"
    /\ entities[2].entity_type = "bold"
    /\ markdown.status = "returned"
    /\ commands.read

\* Entity number i is a bot_command entity
IsCommand(i) == entities[i].entity_type = "bot_command"

\* The slice text[offset : length] of entity number i, character by
\* character: it starts after offset characters and ends after length
\* characters of the text, not after offset + length
KeySlice(i) ==
    LET end == IF entities[i].length < Len(text) THEN entities[i].length
               ELSE Len(text)
        n == IF end > entities[i].offset THEN end - entities[i].offset ELSE 0
    IN [k \in 1..n |-> text[entities[i].offset + k]]

RestAfter(i) ==
    SubSeq(text, entities[i].offset + entities[i].length + 1, Len(text))

\* The string without the whitespace at its two ends
Trimmed(string) ==
    LET Solid == {k \in 1..Len(string) : string[k] \notin {" ", "\n"}}
    IN IF Solid = {} THEN <<>>
       ELSE SubSeq(string,
                   CHOOSE k \in Solid : \A m \in Solid : k <= m,
                   CHOOSE k \in Solid : \A m \in Solid : m <= k)

RECURSIVE JoinedBySpace(_)
\* The pieces with one space between neighbours
JoinedBySpace(pieces) ==
    IF Len(pieces) = 1 THEN pieces[1]
    ELSE pieces[1] \o <<" ">> \o JoinedBySpace(Tail(pieces))

\* The pieces are the string cut at every single space
CutAtSpaces(pieces, string) ==
    /\ Len(pieces) >= 1
    /\ \A k \in 1..Len(pieces) :
          \A m \in 1..Len(pieces[k]) : pieces[k][m] # " "
    /\ JoinedBySpace(pieces) = string

\* C20: the arguments recorded under a key are the text after the span of
\* a bot_command entity with that key, trimmed of the whitespace around it
\* and cut at every single space; for "/start hello world" with one
\* bot_command entity of offset 0 and length 6 the mapping is
\* {"/start": ["hello", "world"]}.
C20_ArgumentsTrimmedAndSplit ==
    (commands.read /\ text # None)
        => /\ \A n \in 1..Len(commands.items) :
                 \E i \in 1..Len(entities) :
                    /\ IsCommand(i)
                    /\ commands.items[n].cmd = KeySlice(i)
                    /\ CutAtSpaces(commands.items[n].params,
                                   Trimmed(RestAfter(i)))
           /\ \A i \in 1..Len(entities) :
                 (IsCommand(i) /\ Len(entities) = 1)
                 => /\ Len(commands.items) = 1
                    /\ CutAtSpaces(commands.items[1].params,
                                   Trimmed(RestAfter(i)))
           /\ (/\ text = StartHelloWorld
               /\ Len(entities) = 1
               /\ IsCommand(1)
               /\ entities[1].offset = 0
               /\ entities[1].length = 6)
              => commands.items
                    = <<[cmd |-> <<"/", "s", "t", "a", "r", "t">>,
                         params |-> <<<<"h", "e", "l", "l", "o">>,
                                      <<"w", "o", "r", "l", "d">>>>]>>

\* C20 witness: the commands of "/start hello world"
C20_Witness ==
    /\ commands.read
    /\ text = StartHelloWorld
    /\ Len(entities) = 1
    /\ IsCommand(1)
    /\ entities[1].offset = 0
    /\ entities[1].length = 6
    /\ Len(commands.items) = 1
    /\ commands.items[1].params
          = <<<<"h", "e", "l", "l", "o">>, <<"w", "o", "r", "l", "d">>>>

(***************************************************************************)
(* Properties of rendering a rendered string again                         *)
(***************************************************************************)

\* How many of the first i characters of the string are common markup
CommonIn(string, i) ==
    Cardinality({j \in 1..i : string[j] \in CommonMarkupCharacters})

\* C18 as stated: the output of rendering a rendered string again, as a
\* text without entities, has no backslash directly followed by a
\* backslash, and each of its common markup characters has exactly one
\* backslash before it.
C18_NoDoubledEscape ==
    rerendered.status = "returned"
        => LET out == Chars(rerendered.tokens)
           IN \A k \in 1..Len(out) :
                 /\ (out[k] = "\\" /\ k < Len(out)) => out[k + 1] # "\\"
                 /\ out[k] \in CommonMarkupCharacters
                    => /\ k > 1
                       /\ out[k - 1] = "\\"
                       /\ k > 2 => out[k - 2] # "\\"

\* C18 amended: the output of rendering a rendered string again, as a text
\* without entities, is the first output with one more backslash before
\* every common markup character and no other change; the backslashes of
\* the first output stay as they are, so an escaped character of the
\* first output has two backslashes before it in the second.
C18_RerenderEscapesAgain ==
    rerendered # NotCalled
        => /\ rerendered.status = "returned"
           /\ rerendered.is_str
           /\ LET first == Chars(markdown.tokens)
                  out == Chars(rerendered.tokens)
              IN /\ Len(out) = Len(first) + CommonIn(first, Len(first))
                 /\ \A i \in 1..Len(first) :
                       /\ out[i + CommonIn(first, i)] = first[i]
                       /\ first[i] \in CommonMarkupCharacters
                            => out[i + CommonIn(first, i) - 1] = "\\"

\* C18 witness: the text a* in a bold entity is rendered as *a\** and
\* that string as \*a\\*\*
C18_Witness ==
    /\ text = <<"a", "*">>
    /\ Len(entities) = 1
    /\ entities[1].entity_type = "bold"
    /\ entities[1].offset = 0
    /\ entities[1].length = 2
    /\ Chars(markdown.tokens) = <<"*", "a", "\\", "*", "*">>
    /\ rerendered.status = "returned"
    /\ Chars(rerendered.tokens)
          = <<"\\", "*", "a", "\\", "\\", "*", "\\", "*">>

(***************************************************************************)
(* Properties of the order of bot_commands                                 *)
(***************************************************************************)

\* The bot_command entities that are the first of the list with their key
FirstWithKey ==
    {i \in 1..Len(entities) :
        /\ IsCommand(i)
        /\ \A j \in 1..(i - 1) : IsCommand(j) => KeySlice(j) # KeySlice(i)}

\* C21: the items of bot_commands are the bot_command entities that are
\* the first of the list with their key, in the order of the list: item n
\* has the key and the arguments of the n-th such entity.  Entities of
\* another type and later entities with a known key add and change
\* nothing.
C21_FirstOccurrenceInGivenOrder ==
    (commands.read /\ text # None)
        => /\ Len(commands.items) = Cardinality(FirstWithKey)
           /\ \A i \in FirstWithKey :
                 LET n == Cardinality({j \in FirstWithKey : j <= i})
                 IN /\ commands.items[n].cmd = KeySlice(i)
                    /\ CutAtSpaces(commands.items[n].params,
                                   Trimmed(RestAfter(i)))

\* C21 witness: four entities not in the order of their offsets, one of
\* them bold, the last with the key of the first and other arguments
C21_Witness ==
    /\ commands.read
    /\ text = RepeatedCommand
    /\ Len(entities) = 4
    /\ KeySlice(1) = KeySlice(4)
    /\ commands.items
          = <<[cmd |-> <<"a", "a">>, params |-> <<<<"b">>>>],
              [cmd |-> <<"a">>, params |-> <<<<"a", "a", "a">>, <<"b">>>>]>>

(***************************************************************************)
(* Properties of the fence of a pre entity                                 *)
(***************************************************************************)

\* C24: the markup of a pre entity is three backticks before and three
\* after the body.  With a language tag the opening fence is followed by
\* the tag and a newline; without one it is followed by a newline exactly
\* when the body, as escaped, starts with a backslash; nothing else is
\* between the opening fence and the body.
C24_PreFence ==
    (markdown.status = "returned" /\ markdown.is_str)
        => \A i \in 1..Len(entities) :
              entities[i].entity_type = "pre"
              => LET toks == markdown.tokens
                     IsOpening(token) == token.e = i /\ token.src = "open"
                     IsClosing(token) == token.e = i /\ token.src = "close"
                     last == CHOOSE k \in 1..Len(toks) :
                                /\ IsOpening(toks[k])
                                /\ \A m \in (k + 1)..Len(toks) :
                                      ~IsOpening(toks[m])
                     tag == entities[i].language
                     fence == <<Backtick, Backtick, Backtick>>
                 IN /\ Chars(SelectSeq(toks, IsClosing)) = fence
                    /\ ~IsClosing(toks[last + 1])
                    /\ Chars(SelectSeq(toks, IsOpening))
                          = fence \o (IF tag # None THEN tag \o <<"\n">>
                                      ELSE IF toks[last + 1].c = "\\"
                                           THEN <<"\n">> ELSE <<>>)

\* C24 witness: a pre entity without language around a text that starts
\* with a common markup character, and the newline before the body
C24_Witness ==
    /\ text = <<"*", "a">>
    /\ Len(entities) = 1
    /\ entities[1].entity_type = "pre"
    /\ entities[1].language = None
    /\ entities[1].offset = 0
    /\ entities[1].length = 2
    /\ markdown.status = "returned"
    /\ Chars(markdown.tokens)
          = <<Backtick, Backtick, Backtick, "\n", "\\", "*", "a",
              Backtick, Backtick, Backtick>>

(***************************************************************************)
(* Properties of the registry of dispatchers                               *)
(***************************************************************************)

\* C26: a get(token) made when the registry has an entry for the token
\* returns the dispatcher of that entry, with the handlers it had, and
\* leaves the entry as it is.
C26_GetReturnsRegistered ==
    [][(op'.name = "get" /\ bots[op'.token] # 0)
          => /\ op'.returned = bots[op'.token]
             /\ bots'[op'.token] = bots[op'.token]
             /\ instances'[op'.returned] = instances[bots[op'.token]]]_vars

(***************************************************************************)
(* Properties of handler discovery                                         *)
(***************************************************************************)

\* C23: every function that discovery appended to the chain takes the
\* update as its one argument: no call f(data) of process_update fails
\* with TypeError, and the value a call returns is in the log under the
\* label of the function.
C23_DiscoveredHandlersCallable ==
    \A k \in 1..Len(calls) :
        /\ calls[k].out # TypeError
        /\ ~IsRaise(calls[k].out)
              => /\ Label(calls[k].f) \in DOMAIN result
                 /\ result[Label(calls[k].f)] = calls[k].out


(***************************************************************************)
(* Concurrent dispatch                                                     *)
(***************************************************************************)

NeverCalled == [t |-> "never called", v |-> "", items |-> {}]

\* What f gives for data, as far as any call has shown it
KnownOutcome(f, data) ==
    IF <<f, data>> \in DOMAIN behaviour THEN behaviour[<<f, data>>] ELSE NeverCalled

RECURSIVE Alone(_, _, _, _, _)
\* process_update(data) run by itself from the n-th handler on
Alone(handlers, data, n, log, made) ==
    IF n > Len(handlers) THEN [pc |-> "returned", log |-> log, calls |-> made]
    ELSE LET f == handlers[n]
             out == KnownOutcome(f, data)
             log2 == IF IsRaise(out) THEN log ELSE DictSet(log, Label(f), out)
             made2 == Append(made, [f |-> f, out |-> out, data |-> data])
             stop == \/ IsRaise(out)
                     \/ ~Truthy(out)
                     \/ (IsDict(out) /\ (~HasKey(out, "ok") \/ GetItem(out, "ok") # "True"))
         IN IF stop
            THEN [pc |-> IF IsRaise(out) \/ (Truthy(out) /\ IsDict(out) /\ ~HasKey(out, "ok"))
                         THEN "raised" ELSE "returned",
                  log |-> log2, calls |-> made2]
            ELSE Alone(handlers, data, n + 1, log2, made2)

WorkerDone(w) == workers[w].pc \in {"returned", "raised"}

\* C22: with every handler registered before the first dispatch, a call of
\* process_update that runs interleaved with another call for a different
\* update ends as it would alone: it called the handlers in registration
\* order with its own update, stopped on its own results only, and its log
\* holds only results computed for its own update.
C22_ConcurrentCallsIndependent ==
    \A w \in Workers :
        WorkerDone(w) =>
            LET me == workers[w]
                alone == Alone(update_handlers, me.data, 1, EmptyDict, <<>>)
            IN /\ me.pc = alone.pc
               /\ me.calls = alone.calls
               /\ logs[Frame(w)] = alone.log
               /\ \A k \in 1..Len(me.calls) :
                     /\ me.calls[k].f = update_handlers[k]
                     /\ me.calls[k].data = me.data
               /\ \A l \in DOMAIN logs[Frame(w)] :
                     /\ \E k \in 1..Len(me.calls) : me.calls[k].out = logs[Frame(w)][l]
                     /\ HasKey(logs[Frame(w)][l], "update_id")
                           => GetItem(logs[Frame(w)][l], "update_id") = me.data

\* Both calls ran while the other was in its loop; one went through two
\* handlers, the other was stopped by the first handler's False.
C22_Witness ==
    /\ \A w \in Workers : WorkerDone(w) /\ workers[w].overlapped
    /\ workers[1].pc = "returned"
    /\ Len(workers[1].calls) = 2
    /\ DOMAIN logs[1] = {Label("a"), Label("b")}
    /\ workers[2].pc = "returned"
    /\ Len(workers[2].calls) = 1
    /\ DOMAIN logs[2] = {Label("a")}
    /\ \A l \in DOMAIN logs[2] : logs[2][l] = PyFalse


(***************************************************************************)
(* email_list                                                              *)
(***************************************************************************)

\* The component is an address and nothing else: an optional name followed
\* by whitespace, then the address, bare or in angle brackets, up to the
\* end of the component.
IsValidAddress(component) ==
    \/ /\ EmailAt(component, 1).ok
       /\ EmailAt(component, 1).end = Len(component)
    \/ \E n \in 1..Len(component) :
          /\ NameOfLength(component, n) # 0
          /\ EmailAt(component, NameOfLength(component, n)).end = Len(component)

Components(string) == [i \in 1..Len(split(string, ";")) |-> strip(split(string, ";")[i])]

\* C25: email_list is all-or-nothing. For a string whose components are all
\* valid addresses it returns one (name, email) tuple per component, in input
\* order, the name None when the component has no name part; if any component
\* is not a valid address it raises EInvalidEmailAddress and returns nothing;
\* for an argument that is not a string it raises TypeError.
C25_AllOrNothing ==
    emails # NotParsed =>
        IF email_string = None THEN emails.status = "TypeError"
        ELSE LET parts == Components(email_string)
             IN IF \A i \in 1..Len(parts) : IsValidAddress(parts[i])
                THEN /\ emails.status = "returned"
                     /\ Len(emails.items) = Len(parts)
                     /\ \A i \in 1..Len(parts) :
                           /\ emails.items[i].email = name_and_email_regex_match(parts[i]).email
                           /\ (emails.items[i].name = None)
                                 <=> EmailAt(parts[i], 1).end = Len(parts[i])
                ELSE /\ emails.status = "EInvalidEmailAddress"
                     /\ emails.items = <<>>


(***************************************************************************)
(* Subscriptions, forwarding and replies                                   *)
(***************************************************************************)

\* The text a bot_command entity marks: length characters from offset on
CommandText(message, ent) ==
    Substring(message.text, ent.offset, ent.offset + ent.length)

\* The message has a bot_command entity that marks the command
Carries(key, message) ==
    \E k \in 1..Len(message.entities) :
        /\ message.entities[k].entity_type = "bot_command"
        /\ CommandText(message, message.entities[k]) = key

PrivateHandled == handled.message.kind = "message" /\ handled.message.chat.type_code = "p"

GroupReplyHandled ==
    /\ handled.message.kind = "message"
    /\ handled.message.chat.type_code = "g"
    /\ handled.message.reply_to_message.present

Sender == handled.message.from_user

\* C27: handling a private message changes the sender's subscription in two
\* cases only: a sender who is not an active subscriber and sends /start is
\* an active subscriber afterwards, an active subscriber who sends /stop
\* (with or without /start) is inactive afterwards; in every other case the
\* subscription is as it was.
C27_SubscriptionChanges ==
    PrivateHandled =>
        LET was == handled.before.subs[Sender]
            now == store.subs[Sender]
        IN IF was # "active" /\ Carries(StartCommand, handled.message)
           THEN now = "active"
           ELSE IF was = "active" /\ Carries(StopCommand, handled.message)
           THEN now = "inactive"
           ELSE now = was

\* C28: a private message is forwarded to the forward chats only if its
\* sender is an active subscriber when it is handled and it carries neither
\* /stop nor /start; nothing else is ever forwarded.
C28_ForwardOnlyFromSubscribers ==
    \A k \in 1..Len(handled.sent) :
        handled.sent[k].method = "forwardMessage" =>
            /\ PrivateHandled
            /\ handled.before.subs[Sender] = "active"
            /\ ~Carries(StopCommand, handled.message)
            /\ ~Carries(StartCommand, handled.message)

\* C29: a reply in a group to a message the bot forwarded is sent to the
\* original sender only if the original sender is an active subscriber, the
\* replying user is an active admin and the chat is an admin channel or a
\* forward channel; otherwise nothing is sent to the original sender.
C29_RelayOnlyIfAllThree ==
    GroupReplyHandled =>
        \A k \in 1..Len(handled.sent) :
            handled.sent[k].chat_id \in Users =>
                /\ handled.message.reply_to_message.from_user = BotUser
                /\ handled.sent[k].chat_id = handled.message.reply_to_message.forward_from
                /\ handled.before.subs[handled.sent[k].chat_id] = "active"
                /\ handled.before.admins[Sender] = "active"
                /\ \/ GroupChat \in handled.before.chats_admin
                   \/ GroupChat \in handled.before.chats_forward

\* An admin's reply in a forward channel that is no admin channel is sent
\* to the subscriber the message came from
C29_Witness ==
    /\ GroupReplyHandled
    /\ Len(handled.sent) = 2
    /\ handled.sent[1] = [method |-> "sendMessage",
                          chat_id |-> handled.message.reply_to_message.forward_from,
                          what |-> "reply", answer |-> "ok"]
    /\ handled.sent[1].chat_id # Sender
    /\ GroupChat \notin handled.before.chats_admin

\* C30: a subscription change made while a private /start or /stop message
\* is handled is committed at the end of the handling also when the API
\* answer to the confirmation is not ok: the stored subscription is the
\* new one.
C30_ChangeCommitted ==
    (/\ PrivateHandled
     /\ Len(handled.sent) >= 1
     /\ handled.sent[1].what \in {"start", "stop"}
     /\ handled.sent[1].answer = "not ok")
        => store.subs[Sender] = IF handled.sent[1].what = "start"
                                THEN "active" ELSE "inactive"

=============================================================================
